---- MODULE Spec2Model ----
(***************************************************************************)
(* A model of the Gash digest engine: the MessageHash container and the    *)
(* Adler32, CRC32, ELF, MD5 and SHA256 classes derived from it.            *)
(*                                                                         *)
(* Representation.  TLC's integers are 32-bit signed, so a uint32 of the   *)
(* program is the pair <<hi, lo>> of its two 16-bit halves; every word     *)
(* operation below is the C++ operation on uint32 (arithmetic mod 2^32).   *)
(* A byte is a number in 0..255, a char a number in -128..127, a string    *)
(* returned by the program a sequence of one-character strings.            *)
(***************************************************************************)
EXTENDS Integers, Sequences, FiniteSets, TLC

(***************************************************************************)
(* uint32 arithmetic                                                       *)
(***************************************************************************)
Half == 2^16

W(hi, lo) == <<hi, lo>>

Zero32 == W(0, 0)

\* The uint32 with value n, for 0 <= n < 2^31.
U32(n) == W((n \div Half) % Half, n % Half)

\* Exclusive or of two bytes, bit by bit
RECURSIVE Xor8(_, _)
Xor8(a, b) ==
    IF a = 0 THEN b
    ELSE IF b = 0 THEN a
    ELSE ((a + b) % 2) + 2 * Xor8(a \div 2, b \div 2)

\* Xor8 tabulated once: XorTable[a + 1][b + 1] = a ^ b.  (Concatenation with the
\* empty sequence makes TLC keep each row as an evaluated sequence.)
XorRow(a) == [b \in 1..256 |-> Xor8(a, b - 1)] \o << >>

XorTable == [a \in 1..256 |-> XorRow(a - 1)] \o << >>

Xor16(a, b) ==
    XorTable[(a % 256) + 1][(b % 256) + 1]
        + 256 * XorTable[(a \div 256) + 1][(b \div 256) + 1]

\* a & b and a | b from a ^ b:  a + b = (a ^ b) + 2 * (a & b) = (a | b) + (a & b)
And16(a, b) == (a + b - Xor16(a, b)) \div 2

Or16(a, b) == (a + b + Xor16(a, b)) \div 2

And32(x, y) == W(And16(x[1], y[1]), And16(x[2], y[2]))

Or32(x, y) == W(Or16(x[1], y[1]), Or16(x[2], y[2]))

Xor32(x, y) == W(Xor16(x[1], y[1]), Xor16(x[2], y[2]))

\* The word itself, uncomplemented
Same32(x) == x

Not32(x) == W(Half - 1 - x[1], Half - 1 - x[2])

Add32(x, y) ==
    LET lo == x[2] + y[2]
    IN  W((x[1] + y[1] + lo \div Half) % Half, lo % Half)

\* x << n on uint32, 0 <= n < 32
Shl32(x, n) ==
    IF n = 0 THEN x
    ELSE IF n < 16
    THEN W(((x[1] * 2^n) % Half) + (x[2] \div 2^(16 - n)), (x[2] * 2^n) % Half)
    ELSE W((x[2] * 2^(n - 16)) % Half, 0)

\* x >> n on uint32, 0 <= n < 32
Shr32(x, n) ==
    IF n = 0 THEN x
    ELSE IF n < 16
    THEN W(x[1] \div 2^n, (x[2] \div 2^n) + ((x[1] % 2^n) * 2^(16 - n)))
    ELSE W(0, x[1] \div 2^(n - 16))

\* Each loop below is a recursive operator whose first test compares the value
\* it is handed with itself (x = x): the comparison makes TLC evaluate the value
\* at once, so that a long run of steps is not kept as a chain of unevaluated
\* terms.
_lcshift(value, shift) == Or32(Shl32(value, shift), Shr32(value, 32 - shift))

_rcshift(value, shift) == Or32(Shr32(value, shift), Shl32(value, 32 - shift))

\* x[k] += y[k] for every word of x
\* The second operand alone, where the two are to be added
SecondOnly(x, y) == y

AddEach(x, y) == [k \in 1..Len(x) |-> Add32(x[k], y[k])]

\* (w >> (8 * k)) & 0xff, the k-th byte of a uint32, k = 0 the least significant
ByteOf(w, k) ==
    IF k = 0 THEN w[2] % 256
    ELSE IF k = 1 THEN w[2] \div 256
    ELSE IF k = 2 THEN w[1] % 256
    ELSE w[1] \div 256

\* b0 | (b1 << 8) | (b2 << 16) | (b3 << 24) for four bytes
Pack(b0, b1, b2, b3) == W(b3 * 256 + b2, b1 * 256 + b0)

(***************************************************************************)
(* The stream (std::ifstream) as the digest classes use it.  content is    *)
(* the file's bytes, pos the read position (0-based), eof and fail the     *)
(* eofbit and failbit, open whether a file is attached.                    *)
(***************************************************************************)
good(f) == ~f.eof /\ ~f.fail

\* The test as it would be without its second half: file.fail() alone
FailedOnly(f) == f.fail

\* file.fail() || !file.good()
NotUsable(f) == f.fail \/ ~good(f)

AtEnd(f) == f.pos >= Len(f.content)

\* peek as it would be with its result stored in a char: bytes from 128 up come
\* back negative, and 0xFF comes back as -1, the end-of-file mark
peekAsChar(f) ==
    IF ~(~f.eof /\ ~f.fail) \/ f.pos >= Len(f.content) THEN -1
    ELSE IF f.content[f.pos + 1] >= 128 THEN f.content[f.pos + 1] - 256
    ELSE f.content[f.pos + 1]

\* file.peek(): -1 at end of file (and eofbit is set), else the next byte
peek(f) == IF ~good(f) \/ AtEnd(f) THEN -1 ELSE f.content[f.pos + 1]

AfterPeek(f) ==
    IF ~good(f) THEN [f EXCEPT !.fail = TRUE]
    ELSE IF AtEnd(f) THEN [f EXCEPT !.eof = TRUE]
    ELSE f

\* file.get() when a byte is there: the read position advances
AfterGet(f) == [f EXCEPT !.pos = f.pos + 1]

\* file.clear()
clear(f) == [f EXCEPT !.eof = FALSE, !.fail = FALSE]

\* file.seekg(k): eofbit is cleared first; fails on a failed or closed stream
seekg(f, k) ==
    IF f.fail \/ ~f.open THEN [f EXCEPT !.eof = FALSE, !.fail = TRUE]
    ELSE [f EXCEPT !.eof = FALSE, !.pos = k]

\* file.seekg(0, ios::end)
seekgEnd(f) == seekg(f, Len(f.content))

\* (uint32)file.tellg()
tellg(f) == f.pos

(***************************************************************************)
(* MD5                                                                     *)
(***************************************************************************)
\* <<index of a in _hash, index of the message word, shift s, constant t>>
Round1Steps ==
    << <<0, 0, 7, W(\hd76a, \ha478)>>, <<3, 1, 12, W(\he8c7, \hb756)>>,
       <<2, 2, 17, W(\h2420, \h70db)>>, <<1, 3, 22, W(\hc1bd, \hceee)>>,
       <<0, 4, 7, W(\hf57c, \h0faf)>>, <<3, 5, 12, W(\h4787, \hc62a)>>,
       <<2, 6, 17, W(\ha830, \h4613)>>, <<1, 7, 22, W(\hfd46, \h9501)>>,
       <<0, 8, 7, W(\h6980, \h98d8)>>, <<3, 9, 12, W(\h8b44, \hf7af)>>,
       <<2, 10, 17, W(\hffff, \h5bb1)>>, <<1, 11, 22, W(\h895c, \hd7be)>>,
       <<0, 12, 7, W(\h6b90, \h1122)>>, <<3, 13, 12, W(\hfd98, \h7193)>>,
       <<2, 14, 17, W(\ha679, \h438e)>>, <<1, 15, 22, W(\h49b4, \h0821)>> >>

\* <<index of a in _hash, index of the message word, shift s, constant t>>
Round2Steps ==
    << <<0, 1, 5, W(\hf61e, \h2562)>>, <<3, 6, 9, W(\hc040, \hb340)>>,
       <<2, 11, 14, W(\h265e, \h5a51)>>, <<1, 0, 20, W(\he9b6, \hc7aa)>>,
       <<0, 5, 5, W(\hd62f, \h105d)>>, <<3, 10, 9, W(\h0244, \h1453)>>,
       <<2, 15, 14, W(\hd8a1, \he681)>>, <<1, 4, 20, W(\he7d3, \hfbc8)>>,
       <<0, 9, 5, W(\h21e1, \hcde6)>>, <<3, 14, 9, W(\hc337, \h07d6)>>,
       <<2, 3, 14, W(\hf4d5, \h0d87)>>, <<1, 8, 20, W(\h455a, \h14ed)>>,
       <<0, 13, 5, W(\ha9e3, \he905)>>, <<3, 2, 9, W(\hfcef, \ha3f8)>>,
       <<2, 7, 14, W(\h676f, \h02d9)>>, <<1, 12, 20, W(\h8d2a, \h4c8a)>> >>

\* <<index of a in _hash, index of the message word, shift s, constant t>>
Round3Steps ==
    << <<0, 5, 4, W(\hfffa, \h3942)>>, <<3, 8, 11, W(\h8771, \hf681)>>,
       <<2, 11, 16, W(\h6d9d, \h6122)>>, <<1, 14, 23, W(\hfde5, \h380c)>>,
       <<0, 1, 4, W(\ha4be, \hea44)>>, <<3, 4, 11, W(\h4bde, \hcfa9)>>,
       <<2, 7, 16, W(\hf6bb, \h4b60)>>, <<1, 10, 23, W(\hbebf, \hbc70)>>,
       <<0, 13, 4, W(\h289b, \h7ec6)>>, <<3, 0, 11, W(\heaa1, \h27fa)>>,
       <<2, 3, 16, W(\hd4ef, \h3085)>>, <<1, 6, 23, W(\h0488, \h1d05)>>,
       <<0, 9, 4, W(\hd9d4, \hd039)>>, <<3, 12, 11, W(\he6db, \h99e5)>>,
       <<2, 15, 16, W(\h1fa2, \h7cf8)>>, <<1, 2, 23, W(\hc4ac, \h5665)>> >>

\* <<index of a in _hash, index of the message word, shift s, constant t>>
Round4Steps ==
    << <<0, 0, 6, W(\hf429, \h2244)>>, <<3, 7, 10, W(\h432a, \hff97)>>,
       <<2, 14, 15, W(\hab94, \h23a7)>>, <<1, 5, 21, W(\hfc93, \ha039)>>,
       <<0, 12, 6, W(\h655b, \h59c3)>>, <<3, 3, 10, W(\h8f0c, \hcc92)>>,
       <<2, 10, 15, W(\hffef, \hf47d)>>, <<1, 1, 21, W(\h8584, \h5dd1)>>,
       <<0, 8, 6, W(\h6fa8, \h7e4f)>>, <<3, 15, 10, W(\hfe2c, \he6e0)>>,
       <<2, 6, 15, W(\ha301, \h4314)>>, <<1, 13, 21, W(\h4e08, \h11a1)>>,
       <<0, 4, 6, W(\hf753, \h7e82)>>, <<3, 11, 10, W(\hbd3a, \hf235)>>,
       <<2, 2, 15, W(\h2ad7, \hd2bb)>>, <<1, 9, 21, W(\heb86, \hd391)>> >>

\* The operands a, b, c, d of a step whose first argument is _hash[ia]
Operand(h, ia, k) == h[((ia + k) % 4) + 1]

_FF(a, b, c, d, Mi, s, t) ==
    LET F_func == Or32(And32(b, c), And32(Not32(b), d))
    IN  Add32(b, _lcshift(Add32(Add32(Add32(a, F_func), Mi), t), s))

_GG(a, b, c, d, Mi, s, t) ==
    LET G_func == Or32(And32(b, d), And32(c, Not32(d)))
    IN  Add32(b, _lcshift(Add32(Add32(Add32(a, G_func), Mi), t), s))

_HH(a, b, c, d, Mi, s, t) ==
    LET H_func == Xor32(Xor32(b, c), d)
    IN  Add32(b, _lcshift(Add32(Add32(Add32(a, H_func), Mi), t), s))

_II(a, b, c, d, Mi, s, t) ==
    LET I_func == Xor32(c, Or32(b, Not32(d)))
    IN  Add32(b, _lcshift(Add32(Add32(Add32(a, I_func), Mi), t), s))

\* One step of round 1: _hash[ia] = _FF(...), st the step's row of Round1Steps
Round1Step(h, b512, st) ==
    [h EXCEPT ![st[1] + 1] =
        _FF(Operand(h, st[1], 0), Operand(h, st[1], 1), Operand(h, st[1], 2),
            Operand(h, st[1], 3), b512[st[2] + 1], st[3], st[4])]

RECURSIVE Round1From(_, _, _)
Round1From(h, b512, n) ==
    IF h = h /\ n <= 16
    THEN Round1From(Round1Step(h, b512, Round1Steps[n]), b512, n + 1)
    ELSE h

\* One step of round 2: _hash[ia] = _GG(...), st the step's row of Round2Steps
Round2Step(h, b512, st) ==
    [h EXCEPT ![st[1] + 1] =
        _GG(Operand(h, st[1], 0), Operand(h, st[1], 1), Operand(h, st[1], 2),
            Operand(h, st[1], 3), b512[st[2] + 1], st[3], st[4])]

RECURSIVE Round2From(_, _, _)
Round2From(h, b512, n) ==
    IF h = h /\ n <= 16
    THEN Round2From(Round2Step(h, b512, Round2Steps[n]), b512, n + 1)
    ELSE h

\* One step of round 3: _hash[ia] = _HH(...), st the step's row of Round3Steps
Round3Step(h, b512, st) ==
    [h EXCEPT ![st[1] + 1] =
        _HH(Operand(h, st[1], 0), Operand(h, st[1], 1), Operand(h, st[1], 2),
            Operand(h, st[1], 3), b512[st[2] + 1], st[3], st[4])]

RECURSIVE Round3From(_, _, _)
Round3From(h, b512, n) ==
    IF h = h /\ n <= 16
    THEN Round3From(Round3Step(h, b512, Round3Steps[n]), b512, n + 1)
    ELSE h

\* One step of round 4: _hash[ia] = _II(...), st the step's row of Round4Steps
Round4Step(h, b512, st) ==
    [h EXCEPT ![st[1] + 1] =
        _II(Operand(h, st[1], 0), Operand(h, st[1], 1), Operand(h, st[1], 2),
            Operand(h, st[1], 3), b512[st[2] + 1], st[3], st[4])]

RECURSIVE Round4From(_, _, _)
Round4From(h, b512, n) ==
    IF h = h /\ n <= 16
    THEN Round4From(Round4Step(h, b512, Round4Steps[n]), b512, n + 1)
    ELSE h

_round1(h, b512) == Round1From(h, b512, 1)

_round2(h, b512) == Round2From(h, b512, 1)

_round3(h, b512) == Round3From(h, b512, 1)

_round4(h, b512) == Round4From(h, b512, 1)

\* One chunk of MD5::calculateHash: A..D saved, the four rounds, _hash[k] += A..D
MD5Chunk(h, block) ==
    AddEach(h, _round4(_round3(_round2(_round1(h, block), block), block), block))

MD5_initializeHash(le) ==
    IF le
    THEN << W(\h6745, \h2301), W(\hefcd, \hab89), W(\h98ba, \hdcfe), W(\h1032, \h5476) >>
    ELSE << W(\h0123, \h4567), W(\h89ab, \hcdef), W(\hfedc, \hba98), W(\h7654, \h3210) >>

\* One word with its four bytes in the opposite order
Swap32(w) == Pack(ByteOf(w, 3), ByteOf(w, 2), ByteOf(w, 1), ByteOf(w, 0))

_convertToLittleEndian(h) == << Swap32(h[1]), Swap32(h[2]), Swap32(h[3]), Swap32(h[4]) >>

\* The multiple of 64 above n, also when n is one already
RoundUp64Past(n) == ((n \div 64) + 1) * 64

\* while ((datasize % 64) != 0) ++datasize;
RECURSIVE RoundUp64(_)
RoundUp64(n) == IF n % 64 = 0 THEN n ELSE RoundUp64(n + 1)

\* The length in bytes where the length in bits belongs
ByteLength(size) == U32(size)

\* uint32 dataBits = size * 8
BitLength(size) == U32(size * 8)

MD5_padVector(data) ==
    LET size     == Len(data)
        datasize == RoundUp64(size + 9)
        dataBits == BitLength(size)
    IN  [i \in 1..datasize |->
            IF i <= size THEN data[i]
            ELSE IF i = size + 1 THEN 128
            ELSE IF i = datasize - 4 THEN ByteOf(dataBits, 3)
            ELSE IF i = datasize - 5 THEN ByteOf(dataBits, 2)
            ELSE IF i = datasize - 6 THEN ByteOf(dataBits, 1)
            ELSE IF i = datasize - 7 THEN ByteOf(dataBits, 0)
            ELSE 0]

\* The 16 words of chunk i (0-based) of the padded message
MD5MessageBlock(le, message, i) ==
    [j \in 1..16 |->
        LET offset == (i * 64) + ((j - 1) * 4)
        IN  IF le
            THEN Pack(message[offset + 1], message[offset + 2],
                      message[offset + 3], message[offset + 4])
            ELSE Pack(message[offset + 4], message[offset + 3],
                      message[offset + 2], message[offset + 1])]

MD5BufferBlocks(le, data) ==
    LET message == MD5_padVector(data)
    IN  [i \in 1..(Len(message) \div 64) |-> MD5MessageBlock(le, message, i - 1)]

RECURSIVE MD5Chunks(_, _, _)
MD5Chunks(h, blocks, i) ==
    IF h = h /\ i <= Len(blocks)
    THEN MD5Chunks(MD5Chunk(h, blocks[i]), blocks, i + 1)
    ELSE h

\* The state of the read loops of calculateHash(ifstream&): the stream, the
\* endOfStream flag, the word being built, the block being built and blockData.
ZeroBlock == [j \in 1..16 |-> Zero32]

\* block.at(j) = append
StoreWord(w, j) == [w EXCEPT !.block = [@ EXCEPT ![j + 1] = w.append]]

\* append |= ((uint32)file.get() << ...), ++blockData
MD5ReadByte(le, s, m) ==
    [s EXCEPT !.file = AfterGet(@),
              !.append = Or32(@, IF le THEN Shl32(U32(peek(s.file)), m * 8)
                                       ELSE Shl32(U32(peek(s.file)), 24 - (m * 8))),
              !.blockData = @ + 1]

\* for-loop m: the bytes of one word, until four are read or the stream ends
RECURSIVE MD5ReadWord(_, _, _)
MD5ReadWord(le, s, m) ==
    IF s = s /\ m < 4 /\ ~s.endOfStream
    THEN IF peek(s.file) = -1
         THEN MD5ReadWord(le, [s EXCEPT !.file = AfterPeek(@), !.endOfStream = TRUE],
                          m + 1)
         ELSE MD5ReadWord(le, MD5ReadByte(le, s, m), m + 1)
    ELSE s

\* for-loop j: the words of one block
RECURSIVE MD5ReadBlock(_, _, _)
MD5ReadBlock(le, s, j) ==
    IF s = s /\ j < 16 /\ ~s.endOfStream
    THEN MD5ReadBlock(le, StoreWord(MD5ReadWord(le, [s EXCEPT !.append = Zero32], 0), j),
                      j + 1)
    ELSE s

MD5_padLastBlock(le, lastBlock, dataInBlock, bitsInFile) ==
    LET shift       == dataInBlock % 4
        paddingWord == (dataInBlock \div 4) % 16
        marker      == IF le THEN Shl32(U32(128), shift * 8)
                             ELSE Shl32(U32(128), 24 - (shift * 8))
        append      == Or32(lastBlock[paddingWord + 1], marker)
    IN  [j \in 1..16 |->
            IF j = 15 THEN bitsInFile
            ELSE IF j = paddingWord + 1 THEN append
            ELSE IF j > paddingWord + 1 THEN Zero32
            ELSE lastBlock[j]]

\* The chunk loop of MD5::calculateHash(ifstream&), the rounds left out: the
\* blocks it hands to the rounds, in order, and the stream it leaves.
RECURSIVE MD5FileChunks(_, _, _, _, _, _)
RECURSIVE MD5FileChunkRead(_, _, _, _, _, _)
MD5FileChunks(le, s, i, chunks, filebits, blocks) ==
    IF s = s /\ blocks = blocks /\ i < chunks
    THEN MD5FileChunkRead(le, MD5ReadBlock(le, [s EXCEPT !.block = ZeroBlock,
                                                       !.blockData = 0], 0),
                          i, chunks, filebits, blocks)
    ELSE [file |-> s.file, blocks |-> blocks]

\* The rest of chunk i once its block is read: the last block is padded
MD5FileChunkRead(le, r, i, chunks, filebits, blocks) ==
    MD5FileChunks(le, r, i + 1, chunks, filebits,
                  Append(blocks,
                         IF r.endOfStream
                         THEN MD5_padLastBlock(le, r.block, r.blockData, filebits)
                         ELSE r.block))

\* Lines 257-347 of md5.cpp on a usable stream
MD5FileBlocks(le, f) ==
    LET atEnd    == seekgEnd(f)
        filesize == tellg(atEnd)
        filebits == BitLength(filesize)
        rewound  == seekg(atEnd, 0)
        chunks   == RoundUp64(filesize + 9) \div 64
        start    == [file |-> rewound, endOfStream |-> FALSE, append |-> Zero32,
                     block |-> ZeroBlock, blockData |-> 0]
    IN  MD5FileChunks(le, start, 0, chunks, filebits, << >>)

(***************************************************************************)
(* SHA-256                                                                 *)
(***************************************************************************)
_K ==
    << W(\h428a, \h2f98), W(\h7137, \h4491), W(\hb5c0, \hfbcf), W(\he9b5, \hdba5),
       W(\h3956, \hc25b), W(\h59f1, \h11f1), W(\h923f, \h82a4), W(\hab1c, \h5ed5),
       W(\hd807, \haa98), W(\h1283, \h5b01), W(\h2431, \h85be), W(\h550c, \h7dc3),
       W(\h72be, \h5d74), W(\h80de, \hb1fe), W(\h9bdc, \h06a7), W(\hc19b, \hf174),
       W(\he49b, \h69c1), W(\hefbe, \h4786), W(\h0fc1, \h9dc6), W(\h240c, \ha1cc),
       W(\h2de9, \h2c6f), W(\h4a74, \h84aa), W(\h5cb0, \ha9dc), W(\h76f9, \h88da),
       W(\h983e, \h5152), W(\ha831, \hc66d), W(\hb003, \h27c8), W(\hbf59, \h7fc7),
       W(\hc6e0, \h0bf3), W(\hd5a7, \h9147), W(\h06ca, \h6351), W(\h1429, \h2967),
       W(\h27b7, \h0a85), W(\h2e1b, \h2138), W(\h4d2c, \h6dfc), W(\h5338, \h0d13),
       W(\h650a, \h7354), W(\h766a, \h0abb), W(\h81c2, \hc92e), W(\h9272, \h2c85),
       W(\ha2bf, \he8a1), W(\ha81a, \h664b), W(\hc24b, \h8b70), W(\hc76c, \h51a3),
       W(\hd192, \he819), W(\hd699, \h0624), W(\hf40e, \h3585), W(\h106a, \ha070),
       W(\h19a4, \hc116), W(\h1e37, \h6c08), W(\h2748, \h774c), W(\h34b0, \hbcb5),
       W(\h391c, \h0cb3), W(\h4ed8, \haa4a), W(\h5b9c, \hca4f), W(\h682e, \h6ff3),
       W(\h748f, \h82ee), W(\h78a5, \h636f), W(\h84c8, \h7814), W(\h8cc7, \h0208),
       W(\h90be, \hfffa), W(\ha450, \h6ceb), W(\hbef9, \ha3f7), W(\hc671, \h78f2) >>

_Ch(x, y, z) == Xor32(And32(x, y), And32(Not32(x), z))

\* x ^ y ^ z
Parity(x, y, z) == Xor32(Xor32(x, y), z)

_Maj(x, y, z) == Xor32(Xor32(And32(x, y), And32(x, z)), And32(y, z))

_Sigma0(x) == Xor32(Xor32(_rcshift(x, 2), _rcshift(x, 13)), _rcshift(x, 22))

_Sigma1(x) == Xor32(Xor32(_rcshift(x, 6), _rcshift(x, 11)), _rcshift(x, 25))

_sig0(x) == Xor32(Xor32(_rcshift(x, 7), _rcshift(x, 18)), Shr32(x, 3))

_sig1(x) == Xor32(Xor32(_rcshift(x, 17), _rcshift(x, 19)), Shr32(x, 10))

\* for (j = 16; j < 64; ++j): schedule.at(j) from the words before it.  The
\* schedule is the sequence sched, schedule.at(j) is sched[j + 1].
RECURSIVE SHASchedule(_, _)
SHASchedule(sched, j) ==
    IF sched = sched /\ j < 64
    THEN SHASchedule(Append(sched,
                            Add32(Add32(Add32(_sig1(sched[j - 1]), sched[j - 6]),
                                        _sig0(sched[j - 14])), sched[j - 15])),
                     j + 1)
    ELSE sched

\* t1 = h + _Sigma1(e) + _Ch(e, f, g) + _K[j] + schedule.at(j), with the working
\* variables wv = <<a, b, c, d, e, f, g, h>>
SHAT1(wv, sched, j) ==
    Add32(Add32(Add32(Add32(wv[8], _Sigma1(wv[5])), _Ch(wv[5], wv[6], wv[7])),
                _K[j + 1]), sched[j + 1])

\* t2 = _Sigma0(a) + _Maj(a, b, c)
SHAT2(wv) == Add32(_Sigma0(wv[1]), _Maj(wv[1], wv[2], wv[3]))

\* h = g; g = f; f = e; e = d + t1; d = c; c = b; b = a; a = t1 + t2
SHARound(wv, t1, t2) ==
    << Add32(t1, t2), wv[1], wv[2], wv[3], Add32(wv[4], t1), wv[5], wv[6], wv[7] >>

\* for (j = 0; j < 64; ++j)
RECURSIVE SHARounds(_, _, _)
SHARounds(wv, sched, j) ==
    IF wv = wv /\ j < 64
    THEN SHARounds(SHARound(wv, SHAT1(wv, sched, j), SHAT2(wv)), sched, j + 1)
    ELSE wv

\* One chunk of SHA256::calculateHash: schedule, 64 rounds, _hash.at(k) += a..h
SHAChunk(h, block) == AddEach(h, SHARounds(h, SHASchedule(block, 16), 0))

SHA_initializeHash ==
    << W(\h6a09, \he667), W(\hbb67, \hae85), W(\h3c6e, \hf372), W(\ha54f, \hf53a),
       W(\h510e, \h527f), W(\h9b05, \h688c), W(\h1f83, \hd9ab), W(\h5be0, \hcd19) >>

\* The padding of SHA-256 with the length field laid out as MD5 lays it out
SHAPadLowFirst(data) == MD5_padVector(data)

SHA_padVector(data) ==
    LET size     == Len(data)
        datasize == RoundUp64(size + 9)
        dataBits == BitLength(size)
    IN  [i \in 1..datasize |->
            IF i <= size THEN data[i]
            ELSE IF i = size + 1 THEN 128
            ELSE IF i = datasize - 3 THEN ByteOf(dataBits, 3)
            ELSE IF i = datasize - 2 THEN ByteOf(dataBits, 2)
            ELSE IF i = datasize - 1 THEN ByteOf(dataBits, 1)
            ELSE IF i = datasize THEN ByteOf(dataBits, 0)
            ELSE 0]

\* Words 0..15 of the schedule of chunk i (0-based) of the padded message
SHAMessageBlock(le, message, i) ==
    [j \in 1..16 |->
        LET offset == (i * 64) + ((j - 1) * 4)
        IN  IF le
            THEN Pack(message[offset + 4], message[offset + 3],
                      message[offset + 2], message[offset + 1])
            ELSE Pack(message[offset + 1], message[offset + 2],
                      message[offset + 3], message[offset + 4])]

SHABufferBlocks(le, data) ==
    LET message == SHA_padVector(data)
    IN  [i \in 1..(Len(message) \div 64) |-> SHAMessageBlock(le, message, i - 1)]

RECURSIVE SHAChunks(_, _, _)
SHAChunks(h, blocks, i) ==
    IF h = h /\ i <= Len(blocks)
    THEN SHAChunks(SHAChunk(h, blocks[i]), blocks, i + 1)
    ELSE h

\* append |= ((uint32)file.get() << ...), ++blockData
SHAReadByte(le, s, m) ==
    [s EXCEPT !.file = AfterGet(@),
              !.append = Or32(@, IF le THEN Shl32(U32(peek(s.file)), 24 - (m * 8))
                                       ELSE Shl32(U32(peek(s.file)), m * 8)),
              !.blockData = @ + 1]

\* for-loop m: the bytes of one word, until four are read or the stream ends
RECURSIVE SHAReadWord(_, _, _)
SHAReadWord(le, s, m) ==
    IF s = s /\ m < 4 /\ ~s.endOfStream
    THEN IF peek(s.file) = -1
         THEN SHAReadWord(le, [s EXCEPT !.file = AfterPeek(@), !.endOfStream = TRUE],
                          m + 1)
         ELSE SHAReadWord(le, SHAReadByte(le, s, m), m + 1)
    ELSE s

\* for-loop j: the words of one block
RECURSIVE SHAReadBlock(_, _, _)
SHAReadBlock(le, s, j) ==
    IF s = s /\ j < 16
    THEN SHAReadBlock(le, StoreWord(SHAReadWord(le, [s EXCEPT !.append = Zero32], 0), j),
                      j + 1)
    ELSE s

SHA_padLastBlock(le, lastBlock, dataInBlock, bitsInFile) ==
    LET shift       == dataInBlock % 4
        paddingWord == (dataInBlock \div 4) % 16
        marker      == IF le THEN Shl32(U32(128), 24 - (shift * 8))
                             ELSE Shl32(U32(128), shift * 8)
        append      == Or32(lastBlock[paddingWord + 1], marker)
    IN  [j \in 1..16 |->
            IF j = 16 THEN bitsInFile
            ELSE IF j = paddingWord + 1 THEN append
            ELSE IF j > paddingWord + 1 THEN Zero32
            ELSE lastBlock[j]]

\* The chunk loop of SHA256::calculateHash(ifstream&), schedule and rounds left
\* out: words 0..15 of each schedule, in order, and the stream it leaves.
RECURSIVE SHAFileChunks(_, _, _, _, _, _)
RECURSIVE SHAFileChunkRead(_, _, _, _, _, _)
SHAFileChunks(le, s, i, chunks, filebits, blocks) ==
    IF s = s /\ blocks = blocks /\ i < chunks
    THEN SHAFileChunkRead(le, SHAReadBlock(le, [s EXCEPT !.block = ZeroBlock,
                                                       !.blockData = 0], 0),
                          i, chunks, filebits, blocks)
    ELSE [file |-> s.file, blocks |-> blocks]

\* The rest of chunk i once its block is read: the last block is padded
SHAFileChunkRead(le, r, i, chunks, filebits, blocks) ==
    SHAFileChunks(le, r, i + 1, chunks, filebits,
                  Append(blocks,
                         IF r.endOfStream
                         THEN SHA_padLastBlock(le, r.block, r.blockData, filebits)
                         ELSE r.block))

\* Lines 310-436 of sha256.cpp on a usable stream
SHAFileBlocks(le, f) ==
    LET atEnd    == seekgEnd(f)
        filesize == tellg(atEnd)
        filebits == BitLength(filesize)
        rewound  == seekg(atEnd, 0)
        chunks   == RoundUp64(filesize + 9) \div 64
        start    == [file |-> rewound, endOfStream |-> FALSE, append |-> Zero32,
                     block |-> ZeroBlock, blockData |-> 0]
    IN  SHAFileChunks(le, start, 0, chunks, filebits, << >>)

(***************************************************************************)
(* Adler-32, CRC-32 and ELF: one step per input byte                       *)
(***************************************************************************)
AdlerModulus == 65521

\* The step of Adler-32 with the sum of sums B left as it comes
AdlerStepUnreduced(ab, v) == << (ab[1] + v) % AdlerModulus, ab[2] + ((ab[1] + v) % AdlerModulus) >>

\* A += v; A %= 65521; B += A; B %= 65521, with A and B unsigned short: the
\* sums are cut to 16 bits when they are stored, before the modulus is taken.
AdlerStep(ab, v) ==
    LET A == ((ab[1] + v) % Half) % AdlerModulus
        B == ((ab[2] + A) % Half) % AdlerModulus
    IN  << A, B >>

\* ((uint32_t)B << 16) | A
AdlerWord(ab) == Or32(Shl32(U32(ab[2]), 16), U32(ab[1]))

\* The reversed polynomial of CRC-32C
Castagnoli == W(\h82f6, \h3b78)

_polynomial == W(\hedb8, \h8320)

\* The inner loop of CRC32::_makeTable
RECURSIVE MakeEntry(_, _)
MakeEntry(value, j) ==
    IF j >= 8 THEN value
    ELSE IF And32(value, U32(1)) = U32(1)
    THEN MakeEntry(Xor32(Shr32(value, 1), _polynomial), j + 1)
    ELSE MakeEntry(Shr32(value, 1), j + 1)

\* CRC32::_table after _makeTable; _table[i] of the program is _table[i + 1] here
_table == [i \in 1..256 |-> MakeEntry(U32(i - 1), 0)] \o << >>

\* A table step that indexes the table with the input byte alone
CRCStepByteOnly(h, v) == Xor32(Shr32(h, 8), _table[v + 1])

\* _hash.at(0) = (_hash.at(0) >> 8) ^ _table[(_hash.at(0) & 0xFF) ^ value]
CRCStep(h, v) ==
    LET index == Xor32(And32(h, U32(255)), U32(v))
    IN  Xor32(Shr32(h, 8), _table[index[2] + 1])

\* The step of ELF that folds the top four bits back and leaves them set
ELFStepUncleared(h, v) ==
    LET h1   == Add32(Shl32(h, 4), U32(v))
        temp == And32(h1, W(\hf000, 0))
    IN  IF temp # Zero32 THEN Xor32(h1, Shr32(temp, 24)) ELSE h1

ELFStep(h, v) ==
    LET h1   == Add32(Shl32(h, 4), U32(v))
        temp == And32(h1, W(\hf000, 0))
        h2   == IF temp # Zero32 THEN Xor32(h1, Shr32(temp, 24)) ELSE h1
    IN  And32(h2, Not32(temp))

\* The loop over data.begin() .. data.end(): acc after the bytes from index i on
RECURSIVE AdlerBytes(_, _, _)
AdlerBytes(ab, data, i) ==
    IF ab = ab /\ i <= Len(data)
    THEN AdlerBytes(AdlerStep(ab, data[i]), data, i + 1)
    ELSE ab

RECURSIVE CRCBytes(_, _, _)
CRCBytes(h, data, i) ==
    IF h = h /\ i <= Len(data)
    THEN CRCBytes(CRCStep(h, data[i]), data, i + 1)
    ELSE h

RECURSIVE ELFBytes(_, _, _)
ELFBytes(h, data, i) ==
    IF h = h /\ i <= Len(data)
    THEN ELFBytes(ELFStep(h, data[i]), data, i + 1)
    ELSE h

\* while (file.peek() != -1) { value = file.get(); ... }: the accumulator and
\* the stream when the loop ends
RECURSIVE AdlerStream(_, _)
AdlerStream(ab, f) ==
    IF ab = ab /\ peek(f) # -1
    THEN AdlerStream(AdlerStep(ab, peek(f)), AfterGet(f))
    ELSE [acc |-> ab, file |-> AfterPeek(f)]

RECURSIVE CRCStream(_, _)
CRCStream(h, f) ==
    IF h = h /\ peek(f) # -1
    THEN CRCStream(CRCStep(h, peek(f)), AfterGet(f))
    ELSE [acc |-> h, file |-> AfterPeek(f)]

RECURSIVE ELFStream(_, _)
ELFStream(h, f) ==
    IF h = h /\ peek(f) # -1
    THEN ELFStream(ELFStep(h, peek(f)), AfterGet(f))
    ELSE [acc |-> h, file |-> AfterPeek(f)]

(***************************************************************************)
(* MessageHash: the container                                              *)
(***************************************************************************)
HexChars == << "0", "1", "2", "3", "4", "5", "6", "7",
               "8", "9", "a", "b", "c", "d", "e", "f" >>

\* The hexadecimal digits of a uint32, most significant first, all eight
Nibbles(w) ==
    << w[1] \div 4096, (w[1] \div 256) % 16, (w[1] \div 16) % 16, w[1] % 16,
       w[2] \div 4096, (w[2] \div 256) % 16, (w[2] \div 16) % 16, w[2] % 16 >>

RECURSIVE Significant(_)
Significant(digits) ==
    IF Len(digits) > 1 /\ digits[1] = 0 THEN Significant(Tail(digits)) ELSE digits

\* ss << hex << value: the digits of the value, lowercase, no leading zeros
HexText(w) ==
    LET d == Significant(Nibbles(w))
    IN  [i \in 1..Len(d) |-> HexChars[d[i] + 1]]

\* The text as it would be written without setw and setfill
Unpadded(text, width, fill) == text

\* setfill(fill) << setw(width): text padded on the left up to the width
RECURSIVE Padded(_, _, _)
Padded(text, width, fill) ==
    IF Len(text) >= width THEN text ELSE Padded(<< fill >> \o text, width, fill)

\* MessageHash::asString
RECURSIVE asStringFrom(_, _)
asStringFrom(hash, i) ==
    IF i > Len(hash) THEN << >>
    ELSE Padded(HexText(hash[i]), 8, "0") \o asStringFrom(hash, i + 1)

asString(hash) == asStringFrom(hash, 1)

\* MessageHash::asArray: store[i++] = *it over _hash.begin() .. _hash.end()
asArray(hash) == [i \in 1..Len(hash) |-> hash[i]]

\* vector<byte>(str.begin(), str.end()): each char converted to unsigned char
BytesOfString(str) == [i \in 1..Len(str) |-> (str[i] + 256) % 256]

\* The first byte in memory of a uint32 on the host
FirstByte(host, w) == IF host = "big" THEN ByteOf(w, 3) ELSE ByteOf(w, 0)

_isLittleEndian(host) ==
    LET i == W(\h89ba, \hdcfe)
    IN  IF FirstByte(host, i) = 137 THEN FALSE ELSE TRUE

\* MessageHash::_initialize on an object whose flag is le before the call
_initialize(le, hashSizeBits, host) ==
    LET words == hashSizeBits \div 32
    IN  [hash |-> [i \in 1..words |-> Zero32],
         le   |-> IF _isLittleEndian(host) THEN TRUE ELSE le]

(***************************************************************************)
(* Inputs.  Byte sequences up to MaxLen over ByteVals, and runs of one     *)
(* byte whose lengths sit around the places where the code changes         *)
(* behaviour: the 16-bit accumulators of Adler-32 and the 56-byte mark of  *)
(* the 64-byte blocks of MD5 and SHA-256.                                  *)
(***************************************************************************)
MaxLen == 2

ByteVals == {97, 255}

RunLengths == {23, 55, 56, 63, 64, 120}

\* n bytes 0xFF
Run(n) == [i \in 1..n |-> 255]

RECURSIVE SeqsUpTo(_)
SeqsUpTo(n) ==
    IF n = 0 THEN {<< >>}
    ELSE LET shorter == SeqsUpTo(n - 1)
         IN  shorter \cup {Append(d, v) : d \in {e \in shorter : Len(e) = n - 1},
                                          v \in ByteVals}

Data == SeqsUpTo(MaxLen)

Runs == {Run(n) : n \in RunLengths}

\* The inputs with published digests: the empty one, "abc" and "123456789"
Known == {<< >>, << 97, 98, 99 >>, << 49, 50, 51, 52, 53, 54, 55, 56, 57 >>}

Long == Runs \cup Known

\* The char holding a byte (char is signed: bytes from 128 up are negative)
CharOfByte(b) == IF b >= 128 THEN b - 256 ELSE b

StringOfBytes(d) == [i \in 1..Len(d) |-> CharOfByte(d[i])]

\* A stream just opened on a file with the given bytes, moved to offset k
OpenAt(content, k) ==
    [content |-> content, pos |-> k, eof |-> FALSE, fail |-> FALSE, open |-> TRUE]

\* A stream whose open failed: failbit is set and no file is attached
NotOpened ==
    [content |-> << >>, pos |-> 0, eof |-> FALSE, fail |-> TRUE, open |-> FALSE]

\* A stream read up to its end by peek (eofbit) or past it by get (eofbit
\* and failbit)
ReadOut(content, failed) ==
    [content |-> content, pos |-> Len(content), eof |-> TRUE, fail |-> failed,
     open |-> TRUE]

MaxSeek == 1

StreamsOver(contents) ==
    {OpenAt(c[1], c[2]) : c \in {<< d, k >> \in contents \X (0..MaxSeek) : k <= Len(d)}} \cup
    {ReadOut(c, failed) : c \in contents, failed \in BOOLEAN} \cup
    {NotOpened}

Healthy(f) == f.open /\ good(f)

Suffix(content, k) == [i \in 1..(Len(content) - k) |-> content[i + k]]

(***************************************************************************)
(* The chunk loops of MD5 and SHA-256 over a sequence of blocks, tabulated *)
(* for the blocks the inputs above produce, computed otherwise.            *)
(***************************************************************************)
TabulatedData == Data \cup Long

\* table[key] where the table has the key, the value worked out otherwise
Lookup(table, key, otherwise) == IF key \in DOMAIN table THEN table[key] ELSE otherwise

MD5Inputs(le) ==
    {MD5BufferBlocks(le, d) : d \in TabulatedData} \cup
    {MD5FileBlocks(le, OpenAt(d, 0)).blocks : d \in TabulatedData}

MD5Tabulated ==
    [k \in UNION {{<< le, b >> : b \in MD5Inputs(le)} : le \in BOOLEAN} |->
        MD5Chunks(MD5_initializeHash(k[1]), k[2], 1)]

MD5Digest(le, blocks) ==
    Lookup(MD5Tabulated, << le, blocks >>, MD5Chunks(MD5_initializeHash(le), blocks, 1))

SHAInputs(le) ==
    {SHABufferBlocks(le, d) : d \in TabulatedData} \cup
    {SHAFileBlocks(le, OpenAt(d, 0)).blocks : d \in TabulatedData}

SHATabulated ==
    [b \in SHAInputs(TRUE) \cup SHAInputs(FALSE) |-> SHAChunks(SHA_initializeHash, b, 1)]

SHADigest(blocks) ==
    Lookup(SHATabulated, blocks, SHAChunks(SHA_initializeHash, blocks, 1))

(***************************************************************************)
(* The calculateHash members.  Each takes the object's _littleEndian flag  *)
(* and the host, and gives the object's fields after the call (hash, le),  *)
(* the string returned (ret), the blocks handed to the rounds (fed) and,   *)
(* for the file overloads, the stream as the call leaves it (file).        *)
(***************************************************************************)
\* return asString() with the digest in _hash
Returned(hash, le, blocks) ==
    [hash |-> hash, le |-> le, ret |-> asString(hash), fed |-> blocks]

\* The same with the stream the call leaves
OnStream(res, f) ==
    [hash |-> res.hash, le |-> res.le, ret |-> res.ret, fed |-> res.fed, file |-> f]

\* file.clear(); file.seekg(0);
Rewound(f) == seekg(clear(f), 0)

\* if (file.fail() || !file.good()) return asString();
ReturnedEarly(init, f) == OnStream(Returned(init.hash, init.le, << >>), f)

\* The single word of the digest set to w
OneWord(init, w) == Returned([init.hash EXCEPT ![1] = w], init.le, << >>)

\* The end of a file overload whose loop gave r = [acc, file]
Streamed(res, r) == OnStream(res, Rewound(r.file))

Adler32_calculateHashBuffer(le, host, data) ==
    OneWord(_initialize(le, 32, host), AdlerWord(AdlerBytes(<< 1, 0 >>, data, 1)))

Adler32_calculateHashString(le, host, str) ==
    Adler32_calculateHashBuffer(le, host, BytesOfString(str))

Adler32Streamed(init, r) == Streamed(OneWord(init, AdlerWord(r.acc)), r)

Adler32_calculateHashFile(le, host, f) ==
    IF NotUsable(f) THEN ReturnedEarly(_initialize(le, 32, host), f)
    ELSE Adler32Streamed(_initialize(le, 32, host), AdlerStream(<< 1, 0 >>, f))

CRC32_calculateHashBuffer(le, host, data) ==
    OneWord(_initialize(le, 32, host), Not32(CRCBytes(W(\hFFFF, \hFFFF), data, 1)))

CRC32_calculateHashString(le, host, str) ==
    CRC32_calculateHashBuffer(le, host, BytesOfString(str))

CRC32Streamed(init, r) == Streamed(OneWord(init, Not32(r.acc)), r)

CRC32_calculateHashFile(le, host, f) ==
    IF NotUsable(f) THEN ReturnedEarly(_initialize(le, 32, host), f)
    ELSE CRC32Streamed(_initialize(le, 32, host), CRCStream(W(\hFFFF, \hFFFF), f))

\* The loop starts from the word _initialize left, which is zero
ELFOver(init, data) == OneWord(init, ELFBytes(init.hash[1], data, 1))

ELF_calculateHashBuffer(le, host, data) == ELFOver(_initialize(le, 32, host), data)

ELF_calculateHashString(le, host, str) ==
    ELF_calculateHashBuffer(le, host, BytesOfString(str))

ELFStreamed(init, r) == Streamed(OneWord(init, r.acc), r)

ELFOverStream(init, f) == ELFStreamed(init, ELFStream(init.hash[1], f))

ELF_calculateHashFile(le, host, f) ==
    IF NotUsable(f) THEN ReturnedEarly(_initialize(le, 32, host), f)
    ELSE ELFOverStream(_initialize(le, 32, host), f)

\* The sum left as the rounds gave it
MD5Unswapped(le, sum) == sum

\* if (_littleEndian) _convertToLittleEndian();
MD5Final(le, sum) == IF le THEN _convertToLittleEndian(sum) ELSE sum

\* The chunk loop over the blocks and the return
MD5Over(le, blocks) == Returned(MD5Final(le, MD5Digest(le, blocks)), le, blocks)

MD5OverBuffer(init, data) == MD5Over(init.le, MD5BufferBlocks(init.le, data))

MD5_calculateHashBuffer(le, host, data) ==
    MD5OverBuffer(_initialize(le, 128, host), data)

MD5_calculateHashString(le, host, str) ==
    MD5_calculateHashBuffer(le, host, BytesOfString(str))

MD5Streamed(le, r) == Streamed(MD5Over(le, r.blocks), r)

MD5OverStream(init, f) == MD5Streamed(init.le, MD5FileBlocks(init.le, f))

\* The literal of eight zeros where MD5 has thirty-two
ReturnedEightZeros(init, f) ==
    [hash |-> init.hash, le |-> init.le, ret |-> [i \in 1..8 |-> "0"],
     fed |-> << >>, file |-> f]

\* return "00000000000000000000000000000000";
MD5ReturnedEarly(init, f) ==
    [hash |-> init.hash, le |-> init.le, ret |-> [i \in 1..32 |-> "0"],
     fed |-> << >>, file |-> f]

MD5_calculateHashFile(le, host, f) ==
    IF NotUsable(f) THEN MD5ReturnedEarly(_initialize(le, 128, host), f)
    ELSE MD5OverStream(_initialize(le, 128, host), f)

SHAOver(le, blocks) == Returned(SHADigest(blocks), le, blocks)

SHAOverBuffer(init, data) == SHAOver(init.le, SHABufferBlocks(init.le, data))

SHA256_calculateHashBuffer(le, host, data) ==
    SHAOverBuffer(_initialize(le, 256, host), data)

SHA256_calculateHashString(le, host, str) ==
    SHA256_calculateHashBuffer(le, host, BytesOfString(str))

SHAStreamed(le, r) == Streamed(SHAOver(le, r.blocks), r)

SHAOverStream(init, f) == SHAStreamed(init.le, SHAFileBlocks(init.le, f))

SHA256_calculateHashFile(le, host, f) ==
    IF NotUsable(f) THEN ReturnedEarly(_initialize(le, 256, host), f)
    ELSE SHAOverStream(_initialize(le, 256, host), f)

Classes == {"Adler32", "CRC32", "ELF", "MD5", "SHA256"}

Machines == {"little", "big"}

\* The virtual calls through MessageHash, dispatched on the object's class
calculateHashBuffer(cls, le, host, data) ==
    CASE cls = "Adler32" -> Adler32_calculateHashBuffer(le, host, data)
      [] cls = "CRC32"   -> CRC32_calculateHashBuffer(le, host, data)
      [] cls = "ELF"     -> ELF_calculateHashBuffer(le, host, data)
      [] cls = "MD5"     -> MD5_calculateHashBuffer(le, host, data)
      [] cls = "SHA256"  -> SHA256_calculateHashBuffer(le, host, data)

calculateHashString(cls, le, host, str) ==
    CASE cls = "Adler32" -> Adler32_calculateHashString(le, host, str)
      [] cls = "CRC32"   -> CRC32_calculateHashString(le, host, str)
      [] cls = "ELF"     -> ELF_calculateHashString(le, host, str)
      [] cls = "MD5"     -> MD5_calculateHashString(le, host, str)
      [] cls = "SHA256"  -> SHA256_calculateHashString(le, host, str)

calculateHashFile(cls, le, host, f) ==
    CASE cls = "Adler32" -> Adler32_calculateHashFile(le, host, f)
      [] cls = "CRC32"   -> CRC32_calculateHashFile(le, host, f)
      [] cls = "ELF"     -> ELF_calculateHashFile(le, host, f)
      [] cls = "MD5"     -> MD5_calculateHashFile(le, host, f)
      [] cls = "SHA256"  -> SHA256_calculateHashFile(le, host, f)

Strings == {StringOfBytes(d) : d \in Data}

Streams == StreamsOver(Data)

(***************************************************************************)
(* The state: one digest object, the machine it runs on and the stream its *)
(* caller hands to calculateHash(ifstream &).                              *)
(***************************************************************************)
VARIABLES
    machine,        \* the byte order of the hardware: "little" or "big"
    class,          \* the class of the object
    _hash,          \* MessageHash::_hash
    _littleEndian,  \* MessageHash::_littleEndian
    used,           \* whether the object has computed a digest before
    call,           \* the last operation on the object, its argument, and
                    \* whether the object had computed a digest before it
    file,           \* the stream that operation was given, as it left it
    ret,            \* the string that operation returned
    fed,            \* the blocks that operation handed to the rounds
    argv,           \* main's arguments, the program's name first
    disk,           \* the files main can be asked for
    pc,             \* where main is
    cout,           \* what has been written to standard output
    cerr,           \* what has been written to standard error
    exitStatus      \* what main returned

mainVars == << argv, disk, pc, cout, cerr, exitStatus >>

vars == << machine, class, _hash, _littleEndian, used, call, file, ret, fed, mainVars >>

\* The digest classes used as a library: no program is running
NoProcess ==
    /\ argv = << >>
    /\ disk = << >>
    /\ pc = "none"
    /\ cout = << >>
    /\ cerr = << >>
    /\ exitStatus = -1

\* The size each class hands to MessageHash(hashSizeBits)
HashSizeBits(cls) ==
    CASE cls = "MD5"    -> 128
      [] cls = "SHA256" -> 256
      [] OTHER          -> 32

\* What _littleEndian may hold before _initialize runs: it has no initial
\* value, so on a machine where _initialize leaves it alone it is whatever
\* the memory held.
Uninitialized == BOOLEAN

\* MessageHash::MessageHash(hashSizeBits) on memory holding the given flag
MessageHash(hashSizeBits, host, memory) == _initialize(memory, hashSizeBits, host)

\* The objects a default constructor can give on a machine
Constructed(cls, host) ==
    {MessageHash(HashSizeBits(cls), host, memory) : memory \in Uninitialized}

\* MessageHash::MessageHash(const MessageHash &copyFrom)
CopyOf(copyFrom) == [hash |-> copyFrom.hash, le |-> copyFrom.le]

\* MessageHash::operator=; same tells whether this == &rhs
operator_assign(lhs, rhs, same) ==
    IF ~same THEN [hash |-> rhs.hash, le |-> rhs.le] ELSE lhs

\* The words and the flags all the same
SameFields(lhs, rhs) == lhs.hash = rhs.hash /\ lhs.le = rhs.le

\* The for-loop of MessageHash::operator==, from word i on
RECURSIVE MatchFrom(_, _, _, _)
MatchFrom(lhs, rhs, i, match) ==
    IF match /\ i <= Len(lhs) /\ i <= Len(rhs)
    THEN MatchFrom(lhs, rhs, i + 1, ~(lhs[i] # rhs[i]))
    ELSE match

\* MessageHash::operator==
operator_eq(lhs, rhs) ==
    IF Len(lhs.hash) # Len(rhs.hash) THEN FALSE
    ELSE MatchFrom(lhs.hash, rhs.hash, 1, TRUE)

\* MessageHash::operator!=
operator_ne(lhs, rhs) == ~operator_eq(lhs, rhs)

\* The objects an assignment can take its value from: any class, default
\* constructed or constructed from a byte
Others(host) ==
    UNION {{[class |-> c, hash |-> o.hash, le |-> o.le] : o \in Constructed(c, host)} \cup
           {[class |-> c, hash |-> calculateHashBuffer(c, o.le, host, << 97 >>).hash,
             le |-> o.le] : o \in Constructed(c, host)} : c \in Classes}

\* The same, machine by machine, worked out once
OthersOn == [host \in Machines |-> Others(host)]

AllOthers == UNION {OthersOn[host] : host \in Machines}

\* An operation that takes no stream, returns no string, runs no rounds
NoStream == NotOpened

NoString == << >>

NoBlocks == << >>

Init ==
    /\ machine \in Machines
    /\ class \in Classes
    /\ \E o \in Constructed(class, machine) :
          /\ _hash = o.hash
          /\ _littleEndian = o.le
    /\ used = FALSE
    /\ call = [op |-> "construct", arg |-> << >>, again |-> FALSE]
    /\ file = NoStream
    /\ ret = NoString
    /\ fed = NoBlocks
    /\ NoProcess

\* calculateHash(const vector < byte > &data)
CalcBuffer(d) ==
    \E res \in {calculateHashBuffer(class, _littleEndian, machine, d)} :
        /\ _hash' = res.hash
        /\ _littleEndian' = res.le
        /\ ret' = res.ret
        /\ fed' = res.fed
        /\ used' = TRUE
        /\ call' = [op |-> "buffer", arg |-> d, again |-> used]
        /\ file' = NoStream
        /\ UNCHANGED << machine, class, mainVars >>

\* calculateHash(const string &str)
CalcString(str) ==
    \E res \in {calculateHashString(class, _littleEndian, machine, str)} :
        /\ _hash' = res.hash
        /\ _littleEndian' = res.le
        /\ ret' = res.ret
        /\ fed' = res.fed
        /\ used' = TRUE
        /\ call' = [op |-> "string", arg |-> str, again |-> used]
        /\ file' = NoStream
        /\ UNCHANGED << machine, class, mainVars >>

\* calculateHash(ifstream &file) on a stream the caller has prepared
CalcFile(f) ==
    \E res \in {calculateHashFile(class, _littleEndian, machine, f)} :
        /\ _hash' = res.hash
        /\ _littleEndian' = res.le
        /\ ret' = res.ret
        /\ fed' = res.fed
        /\ file' = res.file
        /\ used' = TRUE
        /\ call' = [op |-> "file", arg |-> f, again |-> used]
        /\ UNCHANGED << machine, class, mainVars >>

\* *this = rhs through MessageHash::operator=, rhs another object
Assign(rhs) ==
    LET r == operator_assign([hash |-> _hash, le |-> _littleEndian], rhs, FALSE)
    IN  /\ rhs \in OthersOn[machine]
        /\ _hash' = r.hash
        /\ _littleEndian' = r.le
        /\ call' = [op |-> "assign", arg |-> rhs.class, again |-> used]
        /\ file' = NoStream
        /\ ret' = NoString
        /\ fed' = NoBlocks
        /\ UNCHANGED << machine, class, used, mainVars >>

\* *this = *this
AssignSelf ==
    LET self == [hash |-> _hash, le |-> _littleEndian]
        r    == operator_assign(self, self, TRUE)
    IN  /\ _hash' = r.hash
        /\ _littleEndian' = r.le
        /\ call' = [op |-> "assign", arg |-> "self", again |-> used]
        /\ file' = NoStream
        /\ ret' = NoString
        /\ fed' = NoBlocks
        /\ UNCHANGED << machine, class, used, mainVars >>

\* A copy is constructed from the object and the copy is followed from here on
CopyConstruct ==
    LET r == CopyOf([hash |-> _hash, le |-> _littleEndian])
    IN  /\ _hash' = r.hash
        /\ _littleEndian' = r.le
        /\ call' = [op |-> "copy", arg |-> << >>, again |-> used]
        /\ file' = NoStream
        /\ ret' = NoString
        /\ fed' = NoBlocks
        /\ UNCHANGED << machine, class, used, mainVars >>

\* The objects a comparison is made with: those of one word and of four
Comparands == {o \in AllOthers : o.class \in {"Adler32", "MD5"}}

\* *this == rhs and *this != rhs, rhs another object
Compare(rhs) ==
    /\ rhs \in OthersOn[machine]
    /\ call' = [op |-> "compare", arg |-> rhs, again |-> used,
                eq |-> operator_eq([hash |-> _hash, le |-> _littleEndian], rhs),
                ne |-> operator_ne([hash |-> _hash, le |-> _littleEndian], rhs)]
    /\ file' = NoStream
    /\ ret' = NoString
    /\ fed' = NoBlocks
    /\ UNCHANGED << machine, class, _hash, _littleEndian, used, mainVars >>

Next ==
    \/ \E d \in Data : CalcBuffer(d)
    \/ \E str \in Strings : CalcString(str)
    \/ \E f \in Streams : CalcFile(f)
    \/ \E rhs \in AllOthers : Assign(rhs)
    \/ AssignSelf
    \/ CopyConstruct
    \/ \E rhs \in Comparands : Compare(rhs)

Spec == Init /\ [][Next]_vars

\* The same object given the long inputs: whole files and buffers of 0xFF
NextRuns ==
    \/ \E d \in Long : CalcBuffer(d)
    \/ \E d \in Long : CalcFile(OpenAt(d, 0))

SpecRuns == Init /\ [][NextRuns]_vars

(***************************************************************************)
(* The command line program: main of gash.cpp, one action for each stretch *)
(* of it between two exits.  argv[1] here is argv[0] of the program.       *)
(***************************************************************************)
\* #define _VERSION_
_VERSION_ == "1.0.0"

\* Something written to a stream: a fixed text and what followed it
Written(text, value) == [text |-> text, value |-> value]

VersionLine == Written("Gash version: ", << _VERSION_ >>)

EndlEndl == Written("endl endl", << >>)

\* What displayHelp and dispCredits write
displayHelp == Written("Usage:", << >>)

dispCredits == Written("Gash.  A file hashing/integrity checker.", << >>)

\* int argc
argc == Len(argv)

\* argv[k] of the program
Argv(k) == argv[k + 1]

\* string filename(argv[argc - 1])
filename == Argv(argc - 1)

\* ifstream file: a stream with no file attached and no flag set
Closed ==
    [content |-> << >>, pos |-> 0, eof |-> FALSE, fail |-> FALSE, open |-> FALSE]

FileNames == {"f"}

\* Whether file.open succeeds on the name
Openable(name) == name \in FileNames /\ disk[name].there

\* file.open(filename.c_str(), ios::in | ios::binary) on a closed stream
Opened(name) == IF Openable(name) THEN OpenAt(disk[name].content, 0) ELSE NotOpened

\* getFileHandle: the stream after the open, and !file.fail()
getFileHandle(name) == [file |-> Opened(name), ok |-> ~Opened(name).fail]

\* The class and the label the else branch of main picks for argv[1]
Selected(str) ==
    CASE str = "-sha256"  -> [class |-> "SHA256", label |-> "SHA-256: "]
      [] str = "-md5"     -> [class |-> "MD5", label |-> "MD5: "]
      [] str = "-crc"     -> [class |-> "CRC32", label |-> "CRC: "]
      [] str = "-elf"     -> [class |-> "ELF", label |-> "ELF: "]
      [] str = "-adler32" -> [class |-> "Adler32", label |-> "Adler32: "]
      [] OTHER            -> [class |-> "none", label |-> ""]

\* if (argc == 2) MD5 else the class picked by argv[1]
Algorithm(count, str) ==
    IF count = 2 THEN [class |-> "MD5", label |-> "MD5: "] ELSE Selected(str)

\* No digest object exists
NoObject ==
    /\ class = "none"
    /\ _hash = << >>
    /\ _littleEndian = FALSE
    /\ used = FALSE
    /\ call = [op |-> "none", arg |-> << >>, again |-> FALSE]
    /\ ret = NoString
    /\ fed = NoBlocks

objectVars == << class, _hash, _littleEndian, used, call, ret, fed >>

\* The arguments a run is given
Arguments == {"-c", "-h", "-md5", "-sha256", "-crc", "-elf", "-adler32", "-x", "f", "g"}

\* At most this many arguments after the program's name
MaxArgs == 3

RECURSIVE ArgLists(_)
ArgLists(n) ==
    IF n = 0 THEN {<< "gash" >>}
    ELSE ArgLists(n - 1) \cup
         {Append(l, a) : l \in {k \in ArgLists(n - 1) : Len(k) = n}, a \in Arguments}

\* The command lines: every one of up to two arguments, and those of more
\* that end in a file name after a selector
Invocations ==
    {l \in ArgLists(MaxArgs) :
        Len(l) <= 3 \/ (l[Len(l)] = "f" /\ \A k \in 2..(Len(l) - 1) : l[k] = "-md5")}

\* What a name of the disk may hold
Entries ==
    {[there |-> FALSE, content |-> << >>]} \cup
    {[there |-> TRUE, content |-> d] : d \in {<< >>, << 97 >>, << 97, 255 >>}}

InitMain ==
    /\ machine \in Machines
    /\ argv \in Invocations
    /\ disk \in [FileNames -> Entries]
    /\ pc = "start"
    /\ cout = << >>
    /\ cerr = << >>
    /\ exitStatus = -1
    /\ file = Closed
    /\ NoObject

\* return n
Return(n) == pc' = "exited" /\ exitStatus' = n

\* main up to the test of argc
MainStart ==
    /\ pc = "start"
    /\ IF (argc < 2) \/ (argc > 3)
       THEN /\ cout' = cout \o << VersionLine, displayHelp, EndlEndl >>
            /\ Return(0)
       ELSE /\ cout' = cout \o << VersionLine >>
            /\ pc' = "flags"
            /\ UNCHANGED exitStatus
    /\ UNCHANGED << machine, argv, disk, cerr, file, objectVars >>

\* Handle the non-file flags
MainFlags ==
    /\ pc = "flags"
    /\ IF argc = 2
       THEN /\ cout' = cout \o (IF Argv(1) = "-c" THEN << dispCredits >>
                                ELSE IF Argv(1) = "-h" THEN << displayHelp >>
                                ELSE << >>) \o << EndlEndl >>
            /\ Return(0)
       ELSE /\ pc' = "open"
            /\ UNCHANGED << cout, exitStatus >>
    /\ UNCHANGED << machine, argv, disk, cerr, file, objectVars >>

\* if (!getFileHandle(filename, file)) ... and the echo of the name
MainOpen ==
    /\ pc = "open"
    /\ \E got \in {getFileHandle(filename)} :
          /\ file' = got.file
          /\ IF ~got.ok
             THEN /\ cerr' = cerr \o << Written("Error: could not open file ",
                                                << filename >>) >>
                  /\ Return(1)
                  /\ UNCHANGED cout
             ELSE /\ cout' = cout \o << Written("File: ", << filename >>) >>
                  /\ pc' = "hash"
                  /\ UNCHANGED << cerr, exitStatus >>
    /\ UNCHANGED << machine, argv, disk, objectVars >>

\* cout << label << Class(file): the object is constructed from the stream
\* and written with operator<<
MainHash ==
    /\ pc = "hash"
    /\ \E alg \in {Algorithm(argc, Argv(1))} :
          IF alg.class \in Classes
          THEN \E o \in Constructed(alg.class, machine) :
               \E res \in {calculateHashFile(alg.class, o.le, machine, file)} :
                  /\ class' = alg.class
                  /\ _hash' = res.hash
                  /\ _littleEndian' = res.le
                  /\ ret' = res.ret
                  /\ fed' = res.fed
                  /\ file' = res.file
                  /\ used' = TRUE
                  /\ call' = [op |-> "file", arg |-> file, again |-> FALSE]
                  /\ cout' = cout \o << Written(alg.label, asString(res.hash)),
                                        EndlEndl >>
          ELSE /\ cout' = cout \o << displayHelp, EndlEndl >>
               /\ UNCHANGED << file, objectVars >>
    /\ Return(0)
    /\ UNCHANGED << machine, argv, disk, cerr >>

NextMain ==
    \/ MainStart
    \/ MainFlags
    \/ MainOpen
    \/ MainHash

SpecMain == InitMain /\ [][NextMain]_vars

(***************************************************************************)
(* Buffers too long to be written out: the counters and sizes of the       *)
(* buffer overloads followed for a buffer of a given size, on a host whose *)
(* size_t has 64 bits.  A size is four 16-bit digits, the most significant *)
(* first.  The bytes and the digest are not followed here: the words of    *)
(* the object stay as they were.                                           *)
(***************************************************************************)
\* A uint32 converted to size_t
Widen(w) == << 0, 0, w[1], w[2] >>

\* A size_t converted to uint32
Narrow(size) == W(size[3], size[4])

\* a < b on size_t
LessSize(a, b) ==
    \E k \in 1..4 : a[k] < b[k] /\ \A j \in 1..(k - 1) : a[j] = b[j]

\* a + b on size_t
AddSize(a, b) ==
    LET s4 == a[4] + b[4]
        s3 == a[3] + b[3] + (s4 \div Half)
        s2 == a[2] + b[2] + (s3 \div Half)
        s1 == a[1] + b[1] + (s2 \div Half)
    IN  << s1 % Half, s2 % Half, s3 % Half, s4 % Half >>

\* size / 64 on size_t
Div64(size) ==
    << size[1] \div 64,
       (size[2] \div 64) + ((size[1] % 64) * 1024),
       (size[3] \div 64) + ((size[2] % 64) * 1024),
       (size[4] \div 64) + ((size[3] % 64) * 1024) >>

\* x < y and x - y on uint32
Less32(x, y) == x[1] < y[1] \/ (x[1] = y[1] /\ x[2] < y[2])

Sub32(x, y) == Add32(x, Add32(Not32(y), U32(1)))

\* The greatest uint32
Max32 == W(Half - 1, Half - 1)

\* for (uint32 i = ...; i < bound; ++i) with bound a size_t: i is converted to
\* size_t for the test, takes the uint32 values in order and wraps to 0 after
\* the greatest, so the loop is left if and only if the greatest uint32 is
\* not below the bound.
CountedLoopLeaves(bound) == ~LessSize(Widen(Max32), bound)

\* while ((datasize % 64) != 0) ++datasize, on a uint32: the low digit is
\* rounded up and the carry goes to the high one, which wraps
RoundUp64Word(x) == Add32(W(x[1], 0), U32(RoundUp64(x[2])))

\* _padVector on data of the given size: datasize, and message.size() after
\* the push_back of 0x80 and of the zeros
PadSizes(size) ==
    LET datasize == RoundUp64Word(Narrow(AddSize(size, Widen(U32(9)))))
        first    == Add32(Narrow(size), U32(1))
        pushes   == IF Less32(first, datasize) THEN Sub32(datasize, first) ELSE Zero32
    IN  [datasize |-> datasize,
         message  |-> AddSize(AddSize(size, Widen(U32(1))), Widen(pushes))]

\* uint32 dataBits = size * 8, with uint32 size = data.size()
DataBits(size) == Shl32(Narrow(size), 3)

\* a - k on size_t, for k in 1..Half
SubSize(a, k) == AddSize(a, << Half - 1, Half - 1, Half - 1, Half - k >>)

\* message.at(datasize - 8) .. message.at(datasize - 5) of MD5::_padVector take
\* the bytes 0..3 of dataBits; message.at(datasize - 1) .. message.at(datasize - 4)
\* of SHA256::_padVector take them
LengthOffsets(cls) == IF cls = "MD5" THEN << 8, 7, 6, 5 >> ELSE << 1, 2, 3, 4 >>

\* What _padVector leaves at message[index]: byte k of dataBits, a byte of
\* data, the 0x80 pushed after the data, or one of the zeros pushed after it
PadCell(cls, size, datasize, index) ==
    IF \E k \in 1..4 : index = Widen(Sub32(datasize, U32(LengthOffsets(cls)[k])))
    THEN << "length",
            CHOOSE k \in 0..3 :
                index = Widen(Sub32(datasize, U32(LengthOffsets(cls)[k + 1]))) >>
    ELSE IF LessSize(index, size) THEN << "data", 0 >>
    ELSE IF index = size THEN << "marker", 0 >>
    ELSE << "zero", 0 >>

\* The last eight bytes of the message _padVector returns
PadField(cls, size, p) ==
    [k \in 1..8 |-> PadCell(cls, size, p.datasize, SubSize(p.message, 9 - k))]

\* message.at(index) throws out_of_range when index >= message.size()
AtThrows(index, length) == ~LessSize(Widen(index), length)

\* message.at(datasize - 5) ... message.at(datasize - 8) of MD5::_padVector
MD5PadThrows(p) == \E k \in 5..8 : AtThrows(Sub32(p.datasize, U32(k)), p.message)

\* message.at(datasize - 4) ... message.at(datasize - 1) of SHA256::_padVector
SHAPadThrows(p) == \E k \in 1..4 : AtThrows(Sub32(p.datasize, U32(k)), p.message)

\* uint32 chunks = message.size() / 64; for (uint32 i = 0; i < chunks; ++i)
ChunkLoopLeaves(p) == CountedLoopLeaves(Widen(Narrow(Div64(p.message))))

\* How calculateHash(const vector < byte > &data) ends on data of the size:
\* it returns, it throws, or it loops for ever.  Adler32 and ELF walk the
\* data with an iterator up to data.end().
BufferOutcome(cls, size) ==
    CASE cls \in {"Adler32", "ELF"} -> "returns"
      [] cls = "CRC32" ->
            IF CountedLoopLeaves(size) THEN "returns" ELSE "loops"
      [] cls = "MD5" ->
            IF MD5PadThrows(PadSizes(size)) THEN "throws"
            ELSE IF ChunkLoopLeaves(PadSizes(size)) THEN "returns" ELSE "loops"
      [] cls = "SHA256" ->
            IF SHAPadThrows(PadSizes(size)) THEN "throws"
            ELSE IF ChunkLoopLeaves(PadSizes(size)) THEN "returns" ELSE "loops"

\* What calculateHash(const vector < byte > &data) hashes on data of the size:
\* the value of dataBits and the last eight bytes of the padded message, for
\* the classes that pad, when _padVector returns
BufferPadded(cls, size) ==
    IF cls \in {"MD5", "SHA256"} /\ BufferOutcome(cls, size) # "throws"
    THEN [bits |-> DataBits(size), field |-> PadField(cls, size, PadSizes(size))]
    ELSE [bits |-> Zero32, field |-> << >>]

\* The sizes followed: 0, 1, 55, 56, 64, 2^29 - 1, 2^29, 2^32 - 73, 2^32 - 72,
\* 2^32 - 9, 2^32 - 6, 2^32 - 5, 2^32 - 1, 2^32, 2^32 + 1 and 2^33 - 9
Sizes ==
    {<< 0, 0, 0, n >> : n \in {0, 1, 55, 56, 64}} \cup
    {<< 0, 0, 8191, Half - 1 >>, << 0, 0, 8192, 0 >>, << 0, 0, Half - 1, Half - 73 >>} \cup
    {<< 0, 0, Half - 1, Half - n >> : n \in {72, 9, 6, 5, 1}} \cup
    {<< 0, 1, 0, 0 >>, << 0, 1, 0, 1 >>, << 0, 1, Half - 1, Half - 9 >>}

\* The call before, if there was one, has returned
Running == call.op \in {"buffer", "string"} => call.outcome = "returns"

\* calculateHash(const vector < byte > &data) on a buffer of the size
CalcBufferOfSize(size) ==
    /\ Running
    /\ call' = [op |-> "buffer", arg |-> size, again |-> used,
                outcome |-> BufferOutcome(class, size),
                padded |-> BufferPadded(class, size)]
    /\ used' = TRUE
    /\ UNCHANGED << machine, class, _hash, _littleEndian, file, ret, fed, mainVars >>

\* calculateHash(const string &str) on a string of the size: the bytes are
\* copied into a vector and the buffer overload is called
CalcStringOfSize(size) ==
    /\ Running
    /\ call' = [op |-> "string", arg |-> size, again |-> used,
                outcome |-> BufferOutcome(class, size),
                padded |-> BufferPadded(class, size)]
    /\ used' = TRUE
    /\ UNCHANGED << machine, class, _hash, _littleEndian, file, ret, fed, mainVars >>

NextSizes ==
    \/ \E size \in Sizes : CalcBufferOfSize(size)
    \/ \E size \in Sizes : CalcStringOfSize(size)

SpecSizes == Init /\ [][NextSizes]_vars

(***************************************************************************)
(* The buffer overloads of MD5 and SHA-256 a step at a time.  call holds   *)
(* the locals of the running call: phase the stage completed last, message *)
(* the padded data, i the loop counter, block the block (MD5) or the       *)
(* schedule (SHA-256) of chunk i, locals A..D (MD5) or a..h (SHA-256).     *)
(* _hash is the object's field all along, fed the blocks accumulated.      *)
(***************************************************************************)
Phase == IF call.op = "buffer" THEN call.phase ELSE "Idle"

InitSteps == Init /\ class \in {"MD5", "SHA256"}

\* _initialize(...); message = _padVector(data); chunks = message.size() / 64;
\* _initializeHash();
StepPad(d) ==
    /\ Phase \in {"Idle", "Done"}
    /\ \E init \in {_initialize(_littleEndian, HashSizeBits(class), machine)} :
          /\ _littleEndian' = init.le
          /\ _hash' = IF class = "MD5" THEN MD5_initializeHash(init.le)
                      ELSE SHA_initializeHash
    /\ call' = [op |-> "buffer", arg |-> d, again |-> used, phase |-> "Padding",
                message |-> IF class = "MD5" THEN MD5_padVector(d)
                            ELSE SHA_padVector(d),
                i |-> 0, block |-> << >>, locals |-> << >>]
    /\ used' = TRUE
    /\ ret' = NoString
    /\ fed' = NoBlocks
    /\ file' = NoStream
    /\ UNCHANGED << machine, class, mainVars >>

\* i < chunks; A = _hash[0]; ...; the for-loops j that fill block (MD5) or
\* schedule (SHA-256) from message
StepSchedule ==
    /\ Phase \in {"Padding", "Accumulate"}
    /\ call.i < Len(call.message) \div 64
    /\ call' = [call EXCEPT
                  !.phase = "BlockSchedule",
                  !.locals = _hash,
                  !.block = IF class = "MD5"
                            THEN MD5MessageBlock(_littleEndian, call.message, call.i)
                            ELSE SHASchedule(SHAMessageBlock(_littleEndian,
                                                             call.message, call.i), 16)]
    /\ UNCHANGED << machine, class, _hash, _littleEndian, used, file, ret, fed, mainVars >>

\* _round1(block) .. _round4(block), which work on _hash (MD5); the for-loop
\* j of the 64 rounds, which works on a..h (SHA-256)
StepCompress ==
    /\ Phase = "BlockSchedule"
    /\ IF class = "MD5"
       THEN /\ _hash' = _round4(_round3(_round2(_round1(_hash, call.block), call.block),
                                        call.block), call.block)
            /\ call' = [call EXCEPT !.phase = "Compress"]
       ELSE /\ _hash' = _hash
            /\ call' = [call EXCEPT !.phase = "Compress",
                                    !.locals = SHARounds(call.locals, call.block, 0)]
    /\ UNCHANGED << machine, class, _littleEndian, used, file, ret, fed, mainVars >>

\* _hash[0] += A; ... (MD5), _hash.at(0) += a; ... (SHA-256); ++i
StepAccumulate ==
    /\ Phase = "Compress"
    /\ _hash' = AddEach(_hash, call.locals)
    /\ fed' = Append(fed, SubSeq(call.block, 1, 16))
    /\ call' = [call EXCEPT !.phase = "Accumulate", !.i = @ + 1]
    /\ UNCHANGED << machine, class, _littleEndian, used, file, ret, mainVars >>

\* i == chunks; if (_littleEndian) _convertToLittleEndian() (MD5);
\* return asString()
StepReturn ==
    /\ Phase = "Accumulate"
    /\ ~(call.i < Len(call.message) \div 64)
    /\ \E res \in {IF class = "MD5" THEN MD5Final(_littleEndian, _hash) ELSE _hash} :
          /\ _hash' = res
          /\ ret' = asString(res)
    /\ call' = [call EXCEPT !.phase = "Done"]
    /\ UNCHANGED << machine, class, _littleEndian, used, file, fed, mainVars >>

NextSteps ==
    \/ \E d \in Long : StepPad(d)
    \/ StepSchedule
    \/ StepCompress
    \/ StepAccumulate
    \/ StepReturn

SpecSteps == InitSteps /\ [][NextSteps]_vars

(***************************************************************************)
(* Properties                                                              *)
(***************************************************************************)
WordCount(cls) == HashSizeBits(cls) \div 32

Computes == {"buffer", "string", "file"}

\* The string of n '0' characters
Zeros(n) == [i \in 1..n |-> "0"]

\* The bytes a text string stands for: its raw encoding
RawBytes(str) == [i \in 1..Len(str) |-> IF str[i] < 0 THEN str[i] + 256 ELSE str[i]]

\* The last calculateHash run again on an object whose flag is le
Again(le) ==
    CASE call.op = "buffer" -> calculateHashBuffer(class, le, machine, call.arg)
      [] call.op = "string" -> calculateHashString(class, le, machine, call.arg)
      [] call.op = "file"   -> calculateHashFile(class, le, machine, call.arg)

\* A healthy stream at the head of its file was hashed by the last call
HashedWholeFile == call.op = "file" /\ Healthy(call.arg) /\ call.arg.pos = 0

\* C1: MD5 over a healthy stream at offset 0 hands the rounds the same blocks
\* as MD5 over a buffer of the same bytes, whatever the length, and so returns
\* the same digest.
C1_MD5FileEqualsBuffer ==
    (class = "MD5" /\ HashedWholeFile) =>
        LET b == MD5_calculateHashBuffer(_littleEndian, machine, call.arg.content)
        IN  fed = b.fed /\ ret = b.ret

\* C2: SHA-256 over a healthy stream at offset 0 builds the same message
\* blocks as SHA-256 over a buffer of the same bytes, whatever the length, and
\* so returns the same digest.
C2_SHAFileEqualsBuffer ==
    (class = "SHA256" /\ HashedWholeFile) =>
        LET b == SHA256_calculateHashBuffer(_littleEndian, machine, call.arg.content)
        IN  fed = b.fed /\ ret = b.ret

SimpleClasses == {"Adler32", "CRC32", "ELF"}

\* C3: for Adler-32, CRC-32 and ELF, whichever of the three entry points was
\* used on a byte sequence (the buffer, the string with those bytes, the healthy
\* stream at offset 0 over them), the digest returned is the one each of the
\* three gives.
C3_ThreeEntryPointsAgree ==
    class \in SimpleClasses =>
        \A d \in Data :
            (\/ call.op = "buffer" /\ call.arg = d
             \/ call.op = "string" /\ RawBytes(call.arg) = d
             \/ call.op = "file" /\ call.arg = OpenAt(d, 0)) =>
                /\ ret = calculateHashBuffer(class, _littleEndian, machine, d).ret
                /\ ret = calculateHashString(class, _littleEndian, machine,
                                             StringOfBytes(d)).ret
                /\ ret = calculateHashFile(class, _littleEndian, machine,
                                           OpenAt(d, 0)).ret

\* C3's case: a string with a byte above 127 has been hashed by CRC-32
C3_Witness ==
    /\ class = "CRC32"
    /\ call.op = "string"
    /\ \E i \in 1..Len(call.arg) : call.arg[i] < 0

\* C4: after any calculateHash on a stream, whether it ran or returned early,
\* the stream is at offset 0 with its error flags clear.
C4_StreamRewound ==
    call.op = "file" => (file.pos = 0 /\ ~file.eof /\ ~file.fail)

\* The Adler-32 sums with nothing lost before the modulus is taken
RECURSIVE ExactAdler(_, _, _)
ExactAdler(ab, data, i) ==
    IF i > Len(data) THEN ab
    ELSE LET A == (ab[1] + data[i]) % 65521
             B == (ab[2] + A) % 65521
             next == << A, B >>
         IN  IF next = next THEN ExactAdler(next, data, i + 1) ELSE ab

\* The bytes the last computation was given to hash
InputBytes ==
    CASE call.op = "buffer" -> call.arg
      [] call.op = "string" -> RawBytes(call.arg)
      [] call.op = "file"   -> Suffix(call.arg.content, call.arg.pos)

\* C5: the Adler-32 word is (B << 16) | A with A = (A + v) mod 65521 and
\* B = (B + A) mod 65521 taken over the exact sums, for every byte sequence.
C5_AdlerExactSums ==
    (class = "Adler32" /\ (call.op \in {"buffer", "string"} \/ HashedWholeFile)) =>
        LET ab == ExactAdler(<< 1, 0 >>, InputBytes, 1)
        IN  _hash = << W(ab[2], ab[1]) >>

\* C6: a computation on an object that has computed before gives what the
\* same computation gives on a freshly constructed object.
C6_NoStateLeaks ==
    (call.op \in Computes /\ call.again) =>
        \A fresh \in Constructed(class, machine) :
            /\ ret = Again(fresh.le).ret
            /\ _hash = Again(fresh.le).hash

\* C7: calculateHash on a stream that is failed or not good returns 8 * wordCount
\* '0' characters and leaves every word of the digest zero.
C7_ZeroDigestOnBadStream ==
    (call.op = "file" /\ (call.arg.fail \/ call.arg.eof)) =>
        /\ ret = Zeros(8 * WordCount(class))
        /\ Len(_hash) = WordCount(class)
        /\ \A i \in 1..Len(_hash) : _hash[i] = Zero32

\* C7's case: an object that holds a digest is given a stream read to its end
C7_Witness ==
    /\ call.op = "file"
    /\ call.arg.eof
    /\ ~call.arg.fail
    /\ call.again
    /\ class \in {"Adler32", "MD5"}

\* C8: calculateHash on a healthy stream at offset k hashes the bytes from k to
\* the end of the file: it returns the buffer digest of that suffix.
C8_HashesFromOffset ==
    (call.op = "file" /\ Healthy(call.arg)) =>
        ret = calculateHashBuffer(class, _littleEndian, machine,
                                  Suffix(call.arg.content, call.arg.pos)).ret

\* C9: the number of words of the object is the one its class fixes, in every
\* state: after construction, computations, copy construction and assignment.
C9_WordCountFixed == Len(_hash) = WordCount(class)

LowerHex == << "0", "1", "2", "3", "4", "5", "6", "7",
               "8", "9", "a", "b", "c", "d", "e", "f" >>

\* Hex digit k (1 the most significant, 8 the least) of a 32-bit word
HexDigitOf(word, k) ==
    IF k <= 4 THEN (word[1] \div (16 ^ (4 - k))) % 16
    ELSE (word[2] \div (16 ^ (8 - k))) % 16

BlockHashed ==
    /\ class \in {"MD5", "SHA256"}
    /\ (call.op = "buffer" \/ HashedWholeFile)

\* C11: MD5 and SHA-256 process an input of n bytes, from a buffer or from a
\* file, as floor((n + 8) / 64) + 1 blocks of 16 words: 1 block for 0 and 55
\* bytes, 2 for 56, 63 and 64, 3 for 120.
C11_BlockCount ==
    BlockHashed =>
        /\ Len(fed) = ((Len(InputBytes) + 8) \div 64) + 1
        /\ \A i \in 1..Len(fed) : Len(fed[i]) = 16
        /\ Len(InputBytes) \in {0, 55} => Len(fed) = 1
        /\ Len(InputBytes) \in {56, 63, 64} => Len(fed) = 2
        /\ Len(InputBytes) = 120 => Len(fed) = 3

\* C11's case: a file of 56 bytes, whose padding needs a second block
C11_Witness ==
    /\ BlockHashed
    /\ call.op = "file"
    /\ Len(InputBytes) = 56
    /\ Len(fed) = 2


\* The last call hashed no byte at all: an empty buffer, an empty string or a
\* healthy stream over an empty file
HashedNothing ==
    /\ call.op \in {"buffer", "string"} \/ HashedWholeFile
    /\ InputBytes = << >>

\* C12: the empty input gives the word 0x00000001 for Adler-32 and 0x00000000
\* for CRC-32 and for ELF, returned as "00000001", "00000000" and "00000000",
\* through the buffer, the string and the file entry point.
C12_EmptyInput ==
    (class \in SimpleClasses /\ HashedNothing) =>
        /\ class = "Adler32" =>
              /\ _hash = << W(0, 1) >>
              /\ ret = << "0", "0", "0", "0", "0", "0", "0", "1" >>
        /\ class \in {"CRC32", "ELF"} =>
              /\ _hash = << W(0, 0) >>
              /\ ret = << "0", "0", "0", "0", "0", "0", "0", "0" >>

\* C12's case: CRC-32 over a healthy stream on an empty file, on an object
\* that has computed before
C12_Witness ==
    /\ class = "CRC32"
    /\ call.op = "file"
    /\ HashedNothing
    /\ call.again


\* The characters of a hex digest, one string per character
HexOf(digits) == [i \in 1..Len(digits) |-> LowerHex[digits[i] + 1]]

\* A buffer was hashed on a little-endian host
BufferOnLittle(cls, bytes) ==
    class = cls /\ machine = "little" /\ call.op = "buffer" /\ call.arg = bytes

\* C13: on a little-endian host MD5 of the empty buffer is
\* d41d8cd98f00b204e9800998ecf8427e and MD5 of the buffer "abc" is
\* 900150983cd24fb0d6963f7d28e17f72.
C13_MD5Vectors ==
    /\ BufferOnLittle("MD5", << >>) =>
          ret = HexOf(<< 13, 4, 1, 13, 8, 12, 13, 9, 8, 15, 0, 0, 11, 2, 0, 4,
                         14, 9, 8, 0, 0, 9, 9, 8, 14, 12, 15, 8, 4, 2, 7, 14 >>)
    /\ BufferOnLittle("MD5", << 97, 98, 99 >>) =>
          ret = HexOf(<< 9, 0, 0, 1, 5, 0, 9, 8, 3, 12, 13, 2, 4, 15, 11, 0,
                         13, 6, 9, 6, 3, 15, 7, 13, 2, 8, 14, 1, 7, 15, 7, 2 >>)

\* C13's case: MD5 of "abc" on a little-endian host
C13_Witness == BufferOnLittle("MD5", << 97, 98, 99 >>) /\ Len(ret) = 32

\* C14: on a little-endian host SHA-256 of the empty buffer is
\* e3b0c44298fc1c149afbf4c8996fb92427ae41e4649b934ca495991b7852b855 and
\* SHA-256 of the buffer "abc" is
\* ba7816bf8f01cfea414140de5dae2223b00361a396177a9cb410ff61f20015ad.
C14_SHAVectors ==
    /\ BufferOnLittle("SHA256", << >>) =>
          ret = HexOf(<< 14, 3, 11, 0, 12, 4, 4, 2, 9, 8, 15, 12, 1, 12, 1, 4,
                         9, 10, 15, 11, 15, 4, 12, 8, 9, 9, 6, 15, 11, 9, 2, 4,
                         2, 7, 10, 14, 4, 1, 14, 4, 6, 4, 9, 11, 9, 3, 4, 12,
                         10, 4, 9, 5, 9, 9, 1, 11, 7, 8, 5, 2, 11, 8, 5, 5 >>)
    /\ BufferOnLittle("SHA256", << 97, 98, 99 >>) =>
          ret = HexOf(<< 11, 10, 7, 8, 1, 6, 11, 15, 8, 15, 0, 1, 12, 15, 14, 10,
                         4, 1, 4, 1, 4, 0, 13, 14, 5, 13, 10, 14, 2, 2, 2, 3,
                         11, 0, 0, 3, 6, 1, 10, 3, 9, 6, 1, 7, 7, 10, 9, 12,
                         11, 4, 1, 0, 15, 15, 6, 1, 15, 2, 0, 0, 1, 5, 10, 13 >>)

\* C14's case: SHA-256 of "abc" on a little-endian host
C14_Witness == BufferOnLittle("SHA256", << 97, 98, 99 >>) /\ Len(ret) = 64

\* The nine ASCII bytes "123456789"
Digits19 == << 49, 50, 51, 52, 53, 54, 55, 56, 57 >>

\* C15: CRC-32 of "123456789" is 0xCBF43926, returned as "cbf43926".
C15_CRCCheckValue ==
    (class = "CRC32" /\ (call.op = "buffer" \/ HashedWholeFile)
                     /\ InputBytes = Digits19) =>
        /\ _hash = << W(52212, 14630) >>
        /\ ret = << "c", "b", "f", "4", "3", "9", "2", "6" >>

\* C15's case: CRC-32 of the buffer "123456789"
C15_Witness ==
    class = "CRC32" /\ call.op = "buffer" /\ call.arg = Digits19 /\ Len(ret) = 8


\* C16: every calculateHash ends with a value, whatever the length of its
\* input.
C16_AlwaysReturns ==
    call.op \in {"buffer", "string"} => call.outcome = "returns"


\* A line with a digest has been printed
DigestPrinted ==
    \E i \in 1..Len(cout) :
        cout[i].text \in {"MD5: ", "SHA-256: ", "CRC: ", "ELF: ", "Adler32: "}

\* The MD5 digest of a file of the disk, as a fresh MD5 object gives it
MD5OfFile(name) ==
    {calculateHashFile("MD5", o.le, machine, OpenAt(disk[name].content, 0)).ret :
        o \in Constructed("MD5", machine)}

\* C17: run with one argument that names a file that can be opened, the
\* program prints "MD5: " and the MD5 digest of the file.
C17_MD5ByDefault ==
    (pc = "exited" /\ argc = 2 /\ Openable(Argv(1))) =>
        \E i \in 1..Len(cout) :
            /\ cout[i].text = "MD5: "
            /\ cout[i].value \in MD5OfFile(Argv(1))

\* The names that are no flags
PlainNames == {"f", "g"}

\* The run was asked for a file that cannot be opened
AskedForMissing ==
    /\ argc \in {2, 3}
    /\ filename \in PlainNames
    /\ ~Openable(filename)

\* C18: a run that names a missing file, with or without a selector before
\* it, returns a status other than 0, writes to standard error and prints no
\* digest.
C18_MissingFileFails ==
    (pc = "exited" /\ AskedForMissing) =>
        /\ exitStatus # 0
        /\ cerr # << >>
        /\ ~DigestPrinted

\* The help or the credits have been displayed
HelpOrCredits ==
    \E i \in 1..Len(cout) : cout[i] \in {displayHelp, dispCredits}

\* C19: a run that displays the help or the credits returns 0 and has opened
\* no file before.
C19_HelpTouchesNoFile ==
    HelpOrCredits =>
        /\ pc = "exited" /\ exitStatus = 0
        /\ ~file.open


\* C20: two objects compare equal exactly when they hold the same number of
\* words and the same word at every index; != is the negation of ==; the
\* _littleEndian flags take no part.
C20_Equality ==
    call.op = "compare" =>
        /\ call.eq <=> /\ Len(_hash) = Len(call.arg.hash)
                       /\ \A i \in 1..Len(_hash) : _hash[i] = call.arg.hash[i]
        /\ call.ne <=> ~call.eq

\* C20's case: two objects with the same digest and different flags are
\* compared
C20_Witness ==
    /\ call.op = "compare"
    /\ call.eq
    /\ _littleEndian # call.arg.le
    /\ _hash[1] # Zero32


\* One bit of the reference CRC-32: shift right, and XOR 0xEDB88320 in when
\* the bit shifted out was 1
ReferenceBit(crc) ==
    IF crc[2] % 2 = 1 THEN Xor32(Shr32(crc, 1), W(\hedb8, \h8320))
    ELSE Shr32(crc, 1)

\* Eight reference steps
ReferenceBits(crc) ==
    ReferenceBit(ReferenceBit(ReferenceBit(ReferenceBit(
    ReferenceBit(ReferenceBit(ReferenceBit(ReferenceBit(crc))))))))

\* The reference over the bytes i..j of data: each byte is XORed into the low
\* 8 bits, then come the eight steps
RECURSIVE ReferenceCRC(_, _, _, _)
ReferenceCRC(crc, data, i, j) ==
    IF crc # crc \/ i > j THEN crc
    ELSE IF i = j THEN ReferenceBits(Xor32(crc, U32(data[i])))
    ELSE ReferenceCRC(ReferenceCRC(crc, data, i, (i + j) \div 2),
                      data, (i + j) \div 2 + 1, j)

\* Entry i of the table is the eight reference steps applied to i
TableIsReference == \A i \in 0..255 : _table[i + 1] = ReferenceBits(U32(i))

\* C21: the table-driven CRC-32 gives, for every byte sequence, the word of
\* the bit-at-a-time reference (start 0xFFFFFFFF, each byte XORed into the low
\* 8 bits followed by eight shift-and-XOR steps with 0xEDB88320, final
\* complement), and entry i of the table is those eight steps applied to i for
\* i in 0..255.
C21_TableEqualsBitwise ==
    /\ TableIsReference
    /\ (class = "CRC32" /\ (call.op = "buffer" \/ HashedWholeFile)) =>
          _hash = << Not32(ReferenceCRC(W(65535, 65535), InputBytes,
                                         1, Len(InputBytes))) >>

\* C21's case: CRC-32 has run over a buffer of 120 bytes
C21_Witness ==
    class = "CRC32" /\ call.op = "buffer" /\ Len(call.arg) = 120 /\ Len(_hash) = 1


\* The padded message as the rounds were given it: the bytes of the words of
\* fed, in the order in which the class packs four bytes into a word (MD5 the
\* first byte lowest when _littleEndian holds, SHA-256 the first byte highest)
FedBytes ==
    [k \in 1..(64 * Len(fed)) |->
        LET word  == fed[((k - 1) \div 64) + 1][(((k - 1) % 64) \div 4) + 1]
            place == (k - 1) % 4
        IN  IF (class = "MD5") = _littleEndian THEN ByteOf(word, place)
            ELSE ByteOf(word, 3 - place)]

\* Byte k (0 the least significant) of the number x
ByteOfNumber(x, k) ==
    IF k = 0 THEN x % 256
    ELSE IF k = 1 THEN (x \div 256) % 256
    ELSE IF k = 2 THEN (x \div 65536) % 256
    ELSE (x \div 16777216) % 256

\* m has length L, the smallest multiple of 64 that is at least n + 9, starts
\* with the n bytes of data, then 0x80, then zeros up to the length field
PaddedUpTo(m, data) ==
    LET n == Len(data)
        L == Len(m)
    IN  /\ L % 64 = 0 /\ L >= n + 9 /\ L - 64 < n + 9
        /\ \A i \in 1..n : m[i] = data[i]
        /\ m[n + 1] = 128

Eightfold(size) ==
    AddSize(AddSize(AddSize(size, size), AddSize(size, size)),
            AddSize(AddSize(size, size), AddSize(size, size)))

\* The 8-byte length field with a 32-bit length: MD5 has the length in the
\* first four bytes, least significant first, SHA-256 in the last four, most
\* significant first; the other four are zero
TruncatedField(cls) ==
    IF cls = "MD5"
    THEN << << "length", 0 >>, << "length", 1 >>, << "length", 2 >>, << "length", 3 >>,
            << "zero", 0 >>, << "zero", 0 >>, << "zero", 0 >>, << "zero", 0 >> >>
    ELSE << << "zero", 0 >>, << "zero", 0 >>, << "zero", 0 >>, << "zero", 0 >>,
            << "length", 3 >>, << "length", 2 >>, << "length", 1 >>, << "length", 0 >> >>

\* A buffer of at least 2^29 bytes
HalfGiB(size) == ~LessSize(size, << 0, 0, 8192, 0 >>)

\* C24: for an input of n bytes, whatever n, the padded message of MD5 and of
\* SHA-256 ends with an 8-byte length field that holds (8n) mod 2^32 in four
\* bytes and zero in the other four, so that from n = 2^29 on the length
\* stored is not the bit length 8n.
C24_LengthTruncated ==
    (class \in {"MD5", "SHA256"} /\ call.op \in {"buffer", "string"}) =>
        /\ call.padded.field = TruncatedField(class)
        /\ call.padded.bits = Narrow(Eightfold(call.arg))
        /\ HalfGiB(call.arg) <=> Widen(call.padded.bits) # Eightfold(call.arg)


\* The stages a call may pass from and to
MachineEdges ==
    {<< "Idle", "Padding" >>, << "Done", "Padding" >>,
     << "Padding", "BlockSchedule" >>, << "BlockSchedule", "Compress" >>,
     << "Compress", "Accumulate" >>, << "Accumulate", "BlockSchedule" >>,
     << "Accumulate", "Done" >>}

\* x + y word by word, modulo 2^32
Sum32(x, y) == [k \in 1..Len(x) |-> Add32(x[k], y[k])]

\* Padding has completed: the words hold the initial chaining constants, the
\* message is whole, and no block has been touched
PaddingStep ==
    /\ _hash' = IF class = "MD5" THEN MD5_initializeHash(_littleEndian')
                ELSE SHA_initializeHash
    /\ Len(call'.message) % 64 = 0
    /\ Len(call'.message) >= Len(call'.arg) + 9
    /\ call'.i = 0
    /\ fed' = << >>

\* The schedule of the block at offset 64 * i has been built, i the number of
\* blocks accumulated so far
ScheduleStep ==
    /\ call'.i = call.i /\ call.i = Len(fed)
    /\ call.i < Len(call.message) \div 64
    /\ call'.message = call.message
    /\ SubSeq(call'.block, 1, 16) =
          IF class = "MD5" THEN MD5MessageBlock(_littleEndian, call.message, call.i)
          ELSE SHAMessageBlock(_littleEndian, call.message, call.i)
    /\ _hash' = _hash /\ fed' = fed

\* The block has been compressed: nothing else has moved
CompressStep ==
    /\ call'.i = call.i /\ call'.message = call.message
    /\ call'.block = call.block /\ fed' = fed

\* The block has been accumulated: each chaining word is the word before the
\* block plus the working variable.  MD5 compresses in _hash and keeps the
\* words before the block in A..D; SHA-256 compresses in a..h.
AccumulateStep ==
    /\ call'.i = call.i + 1 /\ call'.message = call.message
    /\ fed' = Append(fed, SubSeq(call.block, 1, 16))
    /\ _hash' = Sum32(_hash, call.locals)

\* The digest is returned after the last block was accumulated, and it is the
\* digest of the call taken as a whole
ReturnStep ==
    /\ call.i = Len(call.message) \div 64 /\ Len(fed) = call.i
    /\ fed' = fed
    /\ ret' = asString(_hash')
    /\ ret' = calculateHashBuffer(class, _littleEndian, machine, call.arg).ret

\* A step of the machine: it follows an edge and does what the stage it
\* completes is to do
MachineStep ==
    /\ << Phase, Phase' >> \in MachineEdges
    /\ Phase' = "Padding" => PaddingStep
    /\ Phase' = "BlockSchedule" => ScheduleStep
    /\ Phase' = "Compress" => CompressStep
    /\ Phase' = "Accumulate" => AccumulateStep
    /\ Phase' = "Done" => ReturnStep

\* C25: every MD5 and SHA-256 computation from a buffer runs the whole machine
\* Idle -> Padding -> {BlockSchedule -> Compress -> Accumulate}* -> Done: the
\* words are set to the initial chaining constants and padding completes
\* before the first block is touched, the blocks are processed in increasing
\* offset order, each once through schedule, compress and accumulate (chaining
\* word = word before the block + working variable mod 2^32), and the digest
\* is returned only after the last block was accumulated.
C25_FullMachineFromIdle == [][MachineStep]_vars

\* C25's case: a call on 120 bytes has returned after its three blocks
C25_Witness ==
    Phase = "Done" /\ Len(call.arg) = 120 /\ Len(fed) = 3 /\ Len(ret) > 0


\* C26: after construction and after the reset at the start of every
\* computation, the endianness flag is the byte order the host was detected to
\* have: true on a little-endian host, false on a big-endian one, whatever the
\* flag held before.
C26_FlagIsHostOrder ==
    call.op \in {"construct"} \cup Computes =>
        _littleEndian = (machine = "little")


\* The places of the length word in the last block of a padded message of L
\* bytes: word 14 for MD5, word 15 for SHA-256
LengthPlaces(L) == IF class = "MD5" THEN (L - 7)..(L - 4) ELSE (L - 3)..L

\* C27: when MD5 or SHA-256 hashes a healthy stream, the blocks it hands to
\* the rounds hold, taken together, exactly one 0x80 marker, the length word in
\* the final block only, and every message byte as it was read: no word that
\* holds message bytes is overwritten by the length word.
C27_OneMarkerOneLength ==
    (class \in {"MD5", "SHA256"} /\ HashedWholeFile) =>
        LET m == FedBytes
            n == Len(InputBytes)
            padding == ((n + 1)..Len(FedBytes)) \ LengthPlaces(Len(FedBytes))
        IN  /\ \A i \in 1..n : m[i] = InputBytes[i]
            /\ Cardinality({i \in padding : m[i] = 128}) = 1
            /\ \A i \in padding : m[i] \in {0, 128}


\* C28: whatever the class, the entry point and the path taken (buffer, string,
\* stream read through, stream refused, MD5's literal string of zeros
\* included), the string a computation returns is asString of the digest words
\* as they are stored when the call ends.
C28_ReturnIsStoredDigest ==
    call.op \in Computes => ret = asString(_hash)

\* C28's case: MD5 has refused a stream and returned its literal
C28_Witness ==
    /\ class = "MD5" /\ call.op = "file" /\ NotUsable(call.arg)
    /\ ret = Zeros(32) /\ call.again


\* The ELF word after the first k bytes of the input
ELFAfter(k) == ELFBytes(Zero32, SubSeq(InputBytes, 1, k), 1)

\* The top four bits of a word are clear: it is at most 0x0FFFFFFF
TopNibbleClear(h) == h[1] < 4096

\* C29: the ELF word has none of its top four bits set after any byte of the
\* input has been processed, from a buffer or from a file, and so neither has
\* the digest.
C29_ELFTopNibbleClear ==
    (class = "ELF" /\ (call.op = "buffer" \/ HashedWholeFile)) =>
        /\ _hash = << ELFAfter(Len(InputBytes)) >>
        /\ \A k \in 0..Len(InputBytes) : TopNibbleClear(ELFAfter(k))

\* C29's case: ELF has read a file of 120 bytes, and the last byte carried
\* bits into the top four, which were folded back and cleared
C29_Witness ==
    /\ class = "ELF" /\ HashedWholeFile /\ Len(InputBytes) = 120
    /\ ~TopNibbleClear(Add32(Shl32(ELFAfter(119), 4), U32(InputBytes[120])))
    /\ TopNibbleClear(_hash[1])


\* The accumulators << A, B >> of Adler-32 after the first k bytes of the input
AdlerAfter(k) == AdlerBytes(<< 1, 0 >>, SubSeq(InputBytes, 1, k), 1)

\* C30: after every byte Adler-32 has processed, A < 65521 and B < 65521, so
\* that both 16-bit halves of the digest word lie in 0..65520.
C30_AdlerBelowModulus ==
    (class = "Adler32" /\ (call.op = "buffer" \/ HashedWholeFile)) =>
        /\ \A k \in 0..Len(InputBytes) :
              /\ AdlerAfter(k)[1] \in 0..65520
              /\ AdlerAfter(k)[2] \in 0..65520
        /\ _hash = << W(AdlerAfter(Len(InputBytes))[2], AdlerAfter(Len(InputBytes))[1]) >>
        /\ _hash[1][1] \in 0..65520 /\ _hash[1][2] \in 0..65520

\* C30's case: Adler-32 has summed 120 bytes 0xFF, whose sum of sums passes
\* the modulus
C30_Witness ==
    /\ class = "Adler32" /\ call.op = "buffer" /\ call.arg = Run(120)
    /\ AdlerAfter(22)[2] + AdlerAfter(23)[1] >= 65521
    /\ _hash[1][1] < 65521

====
